---- MODULE Spec2Model ----
(***************************************************************************)
(* Model of app/database.py: the DatabaseManager (lazy pool creation,      *)
(* scoped connection acquisition, query helpers) and the schema            *)
(* reconciler create_tables / _initialize_schema, run by concurrent        *)
(* asyncio tasks against one MySQL/MariaDB store.                          *)
(*                                                                         *)
(* Tasks interleave only at awaits: every action below is the code between *)
(* two awaits of one coroutine.                                            *)
(***************************************************************************)
EXTENDS Integers, Sequences, FiniteSets, TLC

\* ------------------------------------------------------------ bounds
NTasks == 2          \* concurrent request-handling tasks
MaxSize == 2         \* DatabaseConfig.maxsize as configured in the model
MaxRunsPool == 1     \* create_tables calls started in Spec
MaxPools == 3        \* pools created while close() is among the operations
MaxCalls == 2        \* executemany calls whose writes are tracked
MaxBatch == 2        \* parameter sets of one executemany call
MaxIds == 2          \* rows inserted by submit_answers

Tasks == 1..NTasks

NoPool == 0
NoConn == <<0, 0>>

Ops == {"get_pool", "connection", "fetch_all", "fetch_one", "execute",
        "executemany", "test_connection", "create_tables"}


\* ------------------------------------------------------------ schema
\* A column addition `ADD COLUMN IF NOT EXISTS c ... AFTER a`; after = ""
\* when the statement has no AFTER clause.
Col(c, a) == [col |-> c, after |-> a]

\* CREATE TABLE IF NOT EXISTS name (columns, FOREIGN KEY ... REFERENCES refs)
CreateTable(name, columns, references) ==
    [kind |-> "create", table |-> name, cols |-> columns, refs |-> references,
     adds |-> <<>>]

\* ALTER TABLE name ADD COLUMN IF NOT EXISTS ...
AlterTable(name, additions) ==
    [kind |-> "alter", table |-> name, cols |-> {}, refs |-> {},
     adds |-> additions]

CreateUsers ==
    CreateTable("users",
        {"id", "username", "email", "password_hash", "first_name", "last_name",
         "phone_number", "age", "education_level", "work_experience",
         "is_active", "created_at", "updated_at"}, {})

CreateAdmins ==
    CreateTable("admins", {"id", "username", "password_hash", "created_at"}, {})

CreateQuestionnaires ==
    CreateTable("questionnaires",
        {"id", "name", "description", "initial_prompt", "persona_prompt",
         "analysis_prompt", "has_narrator", "character_count", "has_timer",
         "timer_duration", "min_questions", "max_questions", "display_order",
         "category", "next_mystery_slug", "created_at", "updated_at"}, {})

AlterQuestionnairesSlug ==
    AlterTable("questionnaires", <<Col("next_mystery_slug", "category")>>)

AlterQuestionnairesPhases ==
    AlterTable("questionnaires",
        <<Col("total_phases", "next_mystery_slug"),
          Col("phase_two_persona_name", "total_phases"),
          Col("phase_two_persona_prompt", "phase_two_persona_name"),
          Col("phase_two_analysis_prompt", "phase_two_persona_prompt"),
          Col("phase_two_welcome_message", "phase_two_analysis_prompt")>>)

CreatePersonalityAssessments ==
    CreateTable("personality_assessments",
        {"id", "name", "slug", "tagline", "description", "report_name",
         "highlights", "persona_name", "initial_prompt", "persona_prompt",
         "analysis_prompt", "has_timer", "timer_duration", "model",
         "is_active", "created_at", "updated_at"}, {})

AlterPersonaName == AlterTable("personality_assessments", <<Col("persona_name", "")>>)
AlterInitialPrompt == AlterTable("personality_assessments", <<Col("initial_prompt", "")>>)
AlterPersonaPrompt == AlterTable("personality_assessments", <<Col("persona_prompt", "")>>)
AlterAnalysisPrompt == AlterTable("personality_assessments", <<Col("analysis_prompt", "")>>)
AlterHasTimer == AlterTable("personality_assessments", <<Col("has_timer", "")>>)
AlterTimerDuration == AlterTable("personality_assessments", <<Col("timer_duration", "")>>)
AlterModel == AlterTable("personality_assessments", <<Col("model", "")>>)

\* SELECT COUNT(*) ... then the bulk INSERT or the UPDATE loop.
ReconcileSeed ==
    [kind |-> "seed", table |-> "personality_assessments", cols |-> {},
     refs |-> {}, adds |-> <<>>]

CreatePersonalitySessions ==
    CreateTable("personality_sessions",
        {"id", "user_id", "personality_assessment_id", "session_uuid", "status",
         "results", "created_at", "updated_at"},
        {"users", "personality_assessments"})

CreatePersonalityApplications ==
    CreateTable("personality_assessment_applications",
        {"id", "personality_assessment_id", "slug", "full_name", "email",
         "phone", "organization", "notes", "created_at"},
        {"personality_assessments"})

CreateAssessments ==
    CreateTable("assessments",
        {"id", "user_id", "questionnaire_id", "session_id", "status", "results",
         "current_phase", "phase_total", "score", "max_score", "description",
         "supplementary_answers", "created_at", "updated_at", "completed_at"},
        {"users", "questionnaires"})

AlterAssessmentsPhases ==
    AlterTable("assessments",
        <<Col("current_phase", "results"), Col("phase_total", "current_phase")>>)

CreateChatMessages ==
    CreateTable("chat_messages",
        {"id", "assessment_id", "user_id", "message_type", "content",
         "character_name", "created_at"},
        {"assessments", "users"})

CreateOrganizations ==
    CreateTable("organizations",
        {"id", "name", "slug", "created_at", "updated_at"}, {})

CreateOrganizationQuestionnaires ==
    CreateTable("organization_questionnaires",
        {"organization_id", "questionnaire_id"},
        {"organizations", "questionnaires"})

CreateOrganizationUsers ==
    CreateTable("organization_users",
        {"organization_id", "user_id"}, {"organizations", "users"})

CreateBlogPosts ==
    CreateTable("blog_posts",
        {"id", "title", "slug", "excerpt", "content", "cover_image_url",
         "author", "is_published", "published_at", "created_at", "updated_at"},
        {})

CreateMysteryAssessments ==
    CreateTable("mystery_assessments",
        {"id", "name", "slug", "short_description", "intro_message",
         "guide_name", "system_prompt", "analysis_prompt", "bubble_prompt",
         "is_active", "created_at", "updated_at"}, {})

CreateMysteryImages ==
    CreateTable("mystery_assessment_images",
        {"id", "mystery_assessment_id", "image_url", "title", "description",
         "ai_notes", "display_order", "created_at", "updated_at"},
        {"mystery_assessments"})

CreateMysterySessions ==
    CreateTable("mystery_sessions",
        {"id", "user_id", "mystery_assessment_id", "session_uuid", "status",
         "conversation", "summary", "created_at", "updated_at"},
        {"users", "mystery_assessments"})

AlterMysteryBubble ==
    AlterTable("mystery_assessments", <<Col("bubble_prompt", "analysis_prompt")>>)

\* Mutant: personality_sessions created before the personality_assessments
\* table it references.
StatementsSessionsFirst ==
    <<CreateUsers, CreateAdmins, CreateQuestionnaires,
      AlterQuestionnairesSlug, AlterQuestionnairesPhases,
      CreatePersonalitySessions,
      CreatePersonalityAssessments,
      AlterPersonaName, AlterInitialPrompt, AlterPersonaPrompt,
      AlterAnalysisPrompt, AlterHasTimer, AlterTimerDuration, AlterModel,
      ReconcileSeed,
      CreatePersonalityApplications,
      CreateAssessments, AlterAssessmentsPhases, CreateChatMessages,
      CreateOrganizations, CreateOrganizationQuestionnaires,
      CreateOrganizationUsers, CreateBlogPosts, CreateMysteryAssessments,
      CreateMysteryImages, CreateMysterySessions, AlterMysteryBubble>>

\* The statements of _initialize_schema in the order the code issues them.
Statements ==
    <<CreateUsers, CreateAdmins, CreateQuestionnaires,
      AlterQuestionnairesSlug, AlterQuestionnairesPhases,
      CreatePersonalityAssessments,
      AlterPersonaName, AlterInitialPrompt, AlterPersonaPrompt,
      AlterAnalysisPrompt, AlterHasTimer, AlterTimerDuration, AlterModel,
      ReconcileSeed,
      CreatePersonalitySessions, CreatePersonalityApplications,
      CreateAssessments, AlterAssessmentsPhases, CreateChatMessages,
      CreateOrganizations, CreateOrganizationQuestionnaires,
      CreateOrganizationUsers, CreateBlogPosts, CreateMysteryAssessments,
      CreateMysteryImages, CreateMysterySessions, AlterMysteryBubble>>

\* ------------------------------------------------------------ store
\* The schema of the store: a function from the existing tables to their
\* column sets.
EmptySchema == [n \in {} |-> {}]

WithTable(sch, name, columns) ==
    [n \in DOMAIN sch \cup {name} |-> IF n = name THEN columns ELSE sch[n]]

\* Mutant: ADD COLUMN without IF NOT EXISTS, refused when a column is
\* already present.
AddColumnsStrict(columns, additions, i) ==
    IF \E j \in i..Len(additions) : additions[j].col \in columns
      THEN [ok |-> FALSE, cols |-> columns]
      ELSE [ok |-> TRUE,
            cols |-> columns \cup {additions[j].col : j \in i..Len(additions)}]

\* ADD COLUMN IF NOT EXISTS, one addition after the other: an addition of a
\* present column is skipped, an AFTER clause naming an unknown column is an
\* error.
RECURSIVE AddColumns(_, _, _)
AddColumns(columns, additions, i) ==
    IF i > Len(additions) THEN [ok |-> TRUE, cols |-> columns]
    ELSE IF additions[i].col \in columns
        THEN AddColumns(columns, additions, i + 1)
    ELSE IF additions[i].after # "" /\ additions[i].after \notin columns
        THEN [ok |-> FALSE, cols |-> columns]
    ELSE AddColumns(columns \cup {additions[i].col}, additions, i + 1)

\* The error the store answers a DDL statement with, "none" when it runs.
DDLError(sch, st) ==
    IF st.kind = "create"
      THEN IF st.table \in DOMAIN sch THEN "none"
           ELSE IF st.refs \subseteq DOMAIN sch THEN "none" ELSE "fk"
      ELSE IF st.table \notin DOMAIN sch THEN "no_table"
           ELSE IF AddColumns(sch[st.table], st.adds, 1).ok THEN "none"
           ELSE "no_column"

\* The schema after a DDL statement that ran.
DDLEffect(sch, st) ==
    IF st.kind = "create"
      THEN IF st.table \in DOMAIN sch THEN sch
           ELSE WithTable(sch, st.table, st.cols)
      ELSE WithTable(sch, st.table, AddColumns(sch[st.table], st.adds, 1).cols)

\* ------------------------------------------------------------ seed rows
Null == "NULL"
DefaultPersonaName == "personality coach"

\* dict.get(key, default)
Get(test, key, default) == IF key \in DOMAIN test THEN test[key] ELSE default

\* json.dumps(value, ensure_ascii=False): the JSON text of a list.
JsonDumps(value) == <<"json", value>>

\* The parameters both seed statements bind for the mutable columns.
SeedValues(test) ==
    [tagline |-> test.tagline,
     description |-> test.description,
     report_name |-> test.report_name,
     highlights |-> JsonDumps(test.highlights),
     persona_name |-> Get(test, "persona_name", DefaultPersonaName),
     initial_prompt |-> Get(test, "initial_prompt", Null),
     persona_prompt |-> Get(test, "persona_prompt", Null),
     analysis_prompt |-> Get(test, "analysis_prompt", Null),
     has_timer |-> Get(test, "has_timer", FALSE),
     timer_duration |-> Get(test, "timer_duration", Null),
     model |-> Get(test, "model", Null),
     is_active |-> Get(test, "is_active", TRUE)]

MutableColumns == DOMAIN SeedValues([tagline |-> "", description |-> "",
                                     report_name |-> "", highlights |-> <<>>])

\* A row of personality_assessments.
Row(id, name, slug, values) ==
    [c \in {"id", "name", "slug"} \cup MutableColumns |->
        CASE c = "id" -> id
          [] c = "name" -> name
          [] c = "slug" -> slug
          [] OTHER -> values[c]]

\* Mutant: the INSERT binds test.get("persona_name") without the default the
\* UPDATE binds.
InsertedRowNoDefault(id, test) ==
    Row(id, test.name, test.slug,
        [SeedValues(test) EXCEPT !.persona_name = Get(test, "persona_name", Null)])

\* The row the bulk INSERT adds for a seed entry.
InsertedRow(id, test) == Row(id, test.name, test.slug, SeedValues(test))

\* Mutant: the UPDATE without `model = %s`.
UpdatedRowKeepsModel(r, test) ==
    IF r.slug = test.slug
      THEN Row(r.id, r.name, r.slug, [SeedValues(test) EXCEPT !.model = r.model])
      ELSE r

\* UPDATE ... SET <mutable columns> WHERE slug = %s, on one row.
UpdatedRow(r, test) ==
    IF r.slug = test.slug THEN Row(r.id, r.name, r.slug, SeedValues(test)) ELSE r

Slugs(rs) == {r.slug : r \in rs}

\* Mutant: an UPDATE that drops the rows its WHERE clause does not match.
ApplyUpdatePruning(rs, test) ==
    {UpdatedRow(r, test) : r \in {x \in rs : x.slug = test.slug}}

\* The table after one UPDATE of the loop.
ApplyUpdate(rs, test) == {UpdatedRow(r, test) : r \in rs}

Ids(rs) == {r.id : r \in rs}
MaxId(rs) == IF rs = {} THEN 0 ELSE CHOOSE i \in Ids(rs) : \A j \in Ids(rs) : j <= i

\* Mutant: the slug column declared without UNIQUE.
NoUniqueKey(rs, tests) == FALSE

\* slug VARCHAR(255) NOT NULL UNIQUE: the bulk INSERT is refused when it
\* would store one slug twice.
DuplicateKey(rs, tests) ==
    \/ \E i \in 1..Len(tests) : tests[i].slug \in Slugs(rs)
    \/ \E i, j \in 1..Len(tests) : i # j /\ tests[i].slug = tests[j].slug

\* INSERT INTO personality_assessments ... VALUES (...), (...): one row per
\* seed entry, ids from AUTO_INCREMENT.
ApplyInsert(rs, tests) ==
    rs \cup {InsertedRow(MaxId(rs) + i, tests[i]) : i \in 1..Len(tests)}

\* ------------------------------------------------------------ inputs
\* PERSONALITY_TEST_SEED of the running deployment: A with every optional
\* key, B with none, C inactive.
SeedA ==
    [name |-> "A", slug |-> "a", tagline |-> "tag a2", description |-> "desc a2",
     report_name |-> "report a2", highlights |-> <<"h1", "h2">>,
     persona_name |-> "guide", initial_prompt |-> "ip", persona_prompt |-> "pp",
     analysis_prompt |-> "ap", has_timer |-> TRUE, timer_duration |-> "20",
     model |-> "m1", is_active |-> TRUE]

SeedB ==
    [name |-> "B", slug |-> "b", tagline |-> "tag b2", description |-> "desc b2",
     report_name |-> "report b2", highlights |-> <<"h3">>]

SeedC ==
    [name |-> "C", slug |-> "c", tagline |-> "tag c", description |-> "desc c",
     report_name |-> "report c", highlights |-> <<>>, is_active |-> FALSE]

SeedSets == {<<SeedA, SeedB, SeedC>>, <<>>}

\* A store left by an earlier deployment: its seed set was {A, B}, an
\* operator added row Z, and questionnaires, assessments and
\* mystery_assessments predate their added columns.
OldValues(tag) ==
    [tagline |-> tag, description |-> "old", report_name |-> "old",
     highlights |-> JsonDumps(<<"old">>), persona_name |-> DefaultPersonaName,
     initial_prompt |-> Null, persona_prompt |-> Null, analysis_prompt |-> Null,
     has_timer |-> FALSE, timer_duration |-> Null, model |-> Null,
     is_active |-> TRUE]

LegacyRows ==
    {Row(1, "A old name", "a", OldValues("tag a1")),
     Row(2, "B", "b", OldValues("tag b1")),
     Row(7, "Z", "z", OldValues("tag z"))}

LegacyAdded ==
    {"next_mystery_slug", "current_phase", "phase_total", "bubble_prompt"}

LegacySchema ==
    [n \in {Statements[i].table : i \in {j \in 1..Len(Statements) :
                                            Statements[j].kind = "create"}} |->
        LET st == CHOOSE s \in {Statements[i] : i \in 1..Len(Statements)} :
                      s.kind = "create" /\ s.table = n
        IN  st.cols \ LegacyAdded]

EmptyStore == [schema |-> EmptySchema, rows |-> {}]
LegacyStore == [schema |-> LegacySchema, rows |-> LegacyRows]
InitialStores == {EmptyStore, LegacyStore}

NoTxn == [dirty |-> FALSE, view |-> {}]

VARIABLES
    mgrPool,     \* DatabaseManager._pool: NoPool (None) or the id of a pool
    nPools,      \* number of pools aiomysql.create_pool has created so far
    used,        \* connections currently borrowed, <<pool id, slot>>
    pc,          \* pc[t]: where task t is suspended
    op,          \* op[t]: the operation task t is running / ran last
    lpool,       \* the local variable `pool` of the running operation
    conn,        \* the local variable `conn` of the running operation
    result,      \* how the last operation ended
    nAcq,        \* borrows made by the current operation
    nRel,        \* releases made by the current operation
    overlapped,  \* another task held a connection during this borrow
    nRuns,       \* create_tables calls started (counted in Spec only)
    seed,        \* PERSONALITY_TEST_SEED
    schema,      \* the tables of the store and their columns
    rows,        \* the committed rows of personality_assessments
    txn,         \* txn[t]: the uncommitted row writes of t's connection
    began,       \* began[t]: conn.begin() of t's create_tables has returned
    idx,         \* idx[t]: the statement of _initialize_schema t is at
    k,           \* k[t]: the seed entry the UPDATE loop is at
    count,       \* count[t]: the local variable `count`
    err,         \* err[t]: the exception create_tables caught
    changed,     \* changed[t]: a step of t's run changed the committed store
    reconciled,  \* some create_tables run has committed and returned True
    rerun,       \* rerun[t]: t's transaction began on a reconciled store
    maxsize,     \* DatabaseConfig.maxsize, as read from DB_POOL_SIZE
    closing,     \* the pools whose close() has been called
    closedPools, \* the pools whose wait_closed() has returned
    pending,     \* <<connection, write>>: uncommitted writes of a connection
    durable,     \* the committed writes of the query helpers
    bi,          \* bi[t]: parameter sets of t's batch already executed
    outcome,     \* <<call, size, executed, "ok" | "failed">> of executemany calls
    fetched,     \* fetched[t]: the result set of t's fetch_one statement
    retval,      \* retval[t]: what t's fetch_one returns
    nCalls,      \* executemany calls made so far
    callOf,      \* callOf[t]: the number of t's executemany call
    blen,        \* blen[t]: the number of parameter sets of t's batch
    user,        \* user[t]: the user_id argument of t's submit_answers
    answers,     \* answers[t]: the answers dict, <<key, value>> in dict order
    qtext,       \* qtext[t]: the query texts t's submit_answers has issued
    assessmentId, \* assessmentId[t]: cursor.lastrowid of the INSERT, 0 before
    nextId,      \* AUTO_INCREMENT counter of soft_skills_self_assessment
    nCommit,     \* nCommit[t]: conn.commit() calls of t's query helper
    lastrowid,   \* lastrowid[t]: cursor.lastrowid after execute's statement
    execRet,     \* execRet[t]: what t's execute returns
    hook,        \* where the application's shutdown hook is
    hookPool     \* the pool whose wait_closed() the shutdown hook awaits

storeVars == <<seed, schema, rows, txn, began, idx, k, count, err, changed,
               reconciled, rerun>>

\* The pool's configuration and life cycle.
lifeVars == <<maxsize, closing, closedPools>>

\* The writes and results of the query helpers.
dataVars == <<pending, durable, bi, outcome, fetched, retval, qtext,
              assessmentId, nextId>>

\* The arguments of the executemany and submit_answers calls.
batchVars == <<nCalls, callOf, blen, user, answers>>

\* The commits and the return value of the query helpers.
execVars == <<nCommit, lastrowid, execRet>>

\* The shutdown hook of the application.
hookVars == <<hook, hookPool>>

vars == <<mgrPool, nPools, used, pc, op, lpool, conn, result, nAcq, nRel,
          overlapped, nRuns, seed, schema, rows, txn, began, idx, k, count, err,
          changed, reconciled, rerun, lifeVars, dataVars, batchVars, execVars,
          hookVars>>

\* execute has not returned a value.
NoReturn == -1

\* Python's None, and a return value not yet produced.
None == "None"
Unset == "unset"

\* ------------------------------------------------------------ pool
\* The physical connections pool p may own: at most maxsize.
ConnsOf(p) == {<<p, i>> : i \in 1..maxsize}

\* Mutant: acquire() that does not track the borrowed connections.
FreeConnsIgnoringBorrowed(p) == ConnsOf(p)

\* pool.acquire() hands out a connection nobody holds.
FreeConns(p) == ConnsOf(p) \ used

\* The connection pool.acquire() hands out: the pool's free list is a queue,
\* and the connections of one pool are interchangeable, so the lowest free
\* slot stands for its head.
NextFree(p) ==
    CHOOSE c \in FreeConns(p) : \A d \in FreeConns(p) : c[2] <= d[2]

\* Mutant: the release placed after the body instead of in `finally`, so an
\* exception skips it.
ReleasedUnlessRaised(t) ==
    IF result[t] = "raised" THEN used ELSE used \ {conn[t]}

\* pool.release(conn): the borrowed set after the release.
Released(t) == used \ {conn[t]}

\* Mutant: test_connection without its `except Exception`.
RaisedAlways(t) == "raised"

\* test_connection swallows every exception and returns False.
Raised(t) == IF op[t] = "test_connection" THEN "false" ELSE "raised"

\* No request is running.
InitTasks ==
    /\ used = {}
    /\ pc = [t \in Tasks |-> "idle"]
    /\ op = [t \in Tasks |-> "none"]
    /\ lpool = [t \in Tasks |-> NoPool]
    /\ conn = [t \in Tasks |-> NoConn]
    /\ result = [t \in Tasks |-> "none"]
    /\ nAcq = [t \in Tasks |-> 0]
    /\ nRel = [t \in Tasks |-> 0]
    /\ overlapped = [t \in Tasks |-> FALSE]
    /\ nRuns = 0
    /\ txn = [t \in Tasks |-> NoTxn]
    /\ began = [t \in Tasks |-> FALSE]
    /\ idx = [t \in Tasks |-> 0]
    /\ k = [t \in Tasks |-> 0]
    /\ count = [t \in Tasks |-> 0]
    /\ err = [t \in Tasks |-> "none"]
    /\ changed = [t \in Tasks |-> FALSE]
    /\ reconciled = FALSE
    /\ rerun = [t \in Tasks |-> FALSE]
    /\ closing = {}
    /\ closedPools = {}
    /\ pending = {}
    /\ durable = {}
    /\ bi = [t \in Tasks |-> 0]
    /\ outcome = {}
    /\ fetched = [t \in Tasks |-> <<>>]
    /\ retval = [t \in Tasks |-> Unset]
    /\ nCalls = 0
    /\ callOf = [t \in Tasks |-> 0]
    /\ blen = [t \in Tasks |-> 0]
    /\ user = [t \in Tasks |-> 0]
    /\ answers = [t \in Tasks |-> <<>>]
    /\ qtext = [t \in Tasks |-> <<>>]
    /\ assessmentId = [t \in Tasks |-> 0]
    /\ nextId = 0
    /\ nCommit = [t \in Tasks |-> 0]
    /\ lastrowid = [t \in Tasks |-> <<>>]
    /\ execRet = [t \in Tasks |-> NoReturn]
    /\ hook = "idle"
    /\ hookPool = NoPool

\* The manager as constructed (`self._pool = None`); the store is fresh or
\* the one an earlier deployment left.
Init ==
    /\ InitTasks
    /\ mgrPool = NoPool
    /\ nPools = 0
    /\ maxsize = MaxSize
    /\ seed = <<SeedA, SeedB, SeedC>>
    /\ \E s \in InitialStores :
        /\ schema = s.schema
        /\ rows = s.rows

\* The manager when HealthService.verify_database calls create_tables: its
\* test_connection() has returned True, so the pool exists; the store is
\* fresh or the one an earlier deployment left.
InitSchema ==
    /\ InitTasks
    /\ mgrPool = 1
    /\ nPools = 1
    /\ maxsize = MaxSize
    /\ seed \in SeedSets
    /\ \E s \in InitialStores :
        /\ schema = s.schema
        /\ rows = s.rows

\* Where an operation continues once get_pool() has returned the pool.
AfterGetPool(o) == IF o = "get_pool" THEN "done" ELSE "acquire"

\* A task starts operation o and runs get_pool() up to its first await:
\* the test `self._pool is None`, and the return when a pool exists.
Enter(t, o) ==
    /\ pc[t] = "idle"
    /\ op' = [op EXCEPT ![t] = o]
    /\ IF mgrPool = NoPool
         THEN /\ pc' = [pc EXCEPT ![t] = "gp_create"]
              /\ lpool' = [lpool EXCEPT ![t] = NoPool]
              /\ result' = [result EXCEPT ![t] = "none"]
         ELSE /\ pc' = [pc EXCEPT ![t] = AfterGetPool(o)]
              /\ lpool' = [lpool EXCEPT ![t] = mgrPool]
              /\ result' = [result EXCEPT ![t] =
                               IF o = "get_pool" THEN "returned" ELSE "none"]
    /\ UNCHANGED <<mgrPool, nPools, used, conn, nAcq, nRel, overlapped>>
    /\ UNCHANGED storeVars
    /\ UNCHANGED lifeVars
    /\ UNCHANGED dataVars
    /\ UNCHANGED execVars
    /\ UNCHANGED hookVars

\* A request handler calls an operation of the manager.
Call(t) ==
    /\ \E o \in Ops :
        /\ o = "create_tables" => nRuns < MaxRunsPool
        /\ Enter(t, o)
        /\ nRuns' = IF o = "create_tables" THEN nRuns + 1 ELSE nRuns
    /\ UNCHANGED batchVars

\* The startup hook or the diagnostic endpoint calls create_tables().
CallCreateTables(t) ==
    /\ Enter(t, "create_tables")
    /\ UNCHANGED nRuns
    /\ UNCHANGED batchVars

\* `self._pool = await aiomysql.create_pool(...)` completes, `return self._pool`.
CreatePool(t) ==
    /\ pc[t] = "gp_create"
    /\ nPools' = nPools + 1
    /\ mgrPool' = nPools + 1
    /\ lpool' = [lpool EXCEPT ![t] = nPools + 1]
    /\ pc' = [pc EXCEPT ![t] = AfterGetPool(op[t])]
    /\ result' = [result EXCEPT ![t] =
                     IF op[t] = "get_pool" THEN "returned" ELSE "none"]
    /\ UNCHANGED <<used, op, conn, nAcq, nRel, overlapped, nRuns>>
    /\ UNCHANGED storeVars
    /\ UNCHANGED lifeVars
    /\ UNCHANGED dataVars
    /\ UNCHANGED batchVars
    /\ UNCHANGED execVars
    /\ UNCHANGED hookVars

\* Mutant: get_pool that assigns self._pool before the creation has
\* succeeded, leaving a pool that was never built on the manager.
CreatePoolFailsKeepsPool(t) ==
    /\ pc[t] = "gp_create"
    /\ mgrPool' = nPools + 1
    /\ pc' = [pc EXCEPT ![t] = "done"]
    /\ result' = [result EXCEPT ![t] = Raised(t)]
    /\ UNCHANGED <<nPools, used, op, lpool, conn, nAcq, nRel,
                   overlapped, nRuns>>
    /\ UNCHANGED storeVars
    /\ UNCHANGED lifeVars
    /\ UNCHANGED dataVars
    /\ UNCHANGED batchVars
    /\ UNCHANGED execVars
    /\ UNCHANGED hookVars

\* aiomysql.create_pool raises: the store is unreachable.
CreatePoolFails(t) ==
    /\ pc[t] = "gp_create"
    /\ pc' = [pc EXCEPT ![t] = "done"]
    /\ result' = [result EXCEPT ![t] = Raised(t)]
    /\ UNCHANGED <<mgrPool, nPools, used, op, lpool, conn, nAcq, nRel,
                   overlapped, nRuns>>
    /\ UNCHANGED storeVars
    /\ UNCHANGED lifeVars
    /\ UNCHANGED dataVars
    /\ UNCHANGED batchVars
    /\ UNCHANGED execVars
    /\ UNCHANGED hookVars

\* Mutant: fetch_all written inside `async with self.connection()`, asking
\* the pool for a second connection while it holds the first.
AfterAcquireNested(o) ==
    IF o = "fetch_all" THEN "acquire"
    ELSE IF o \in {"connection", "create_tables", "test_connection",
                   "submit_answers"}
        THEN "ping" ELSE "stmt"

\* Where an operation continues once it holds a connection.
AfterAcquire(o) ==
    IF o \in {"connection", "create_tables", "test_connection", "submit_answers"}
        THEN "ping" ELSE "stmt"

\* `await pool.acquire()` returns a free connection of an open pool; it waits
\* while all maxsize connections of the pool are borrowed.
Acquire(t) ==
    /\ pc[t] = "acquire"
    /\ lpool[t] \notin closing
    /\ FreeConns(lpool[t]) # {}
    /\ conn' = [conn EXCEPT ![t] = NextFree(lpool[t])]
    /\ used' = used \cup {NextFree(lpool[t])}
    /\ nAcq' = [nAcq EXCEPT ![t] = nAcq[t] + 1]
    /\ pc' = [pc EXCEPT ![t] = AfterAcquire(op[t])]
    /\ UNCHANGED <<mgrPool, nPools, op, lpool, result, nRel, overlapped, nRuns>>
    /\ UNCHANGED storeVars
    /\ UNCHANGED lifeVars
    /\ UNCHANGED dataVars
    /\ UNCHANGED batchVars
    /\ UNCHANGED execVars
    /\ UNCHANGED hookVars

\* Mutant: a pool that rejects the borrower when all its connections are
\* borrowed.
AcquireRejects(t) ==
    /\ pc[t] = "acquire"
    /\ pc' = [pc EXCEPT ![t] = "done"]
    /\ result' = [result EXCEPT ![t] = Raised(t)]
    /\ lpool' = [lpool EXCEPT ![t] = NoPool]
    /\ UNCHANGED <<mgrPool, nPools, used, op, conn, nAcq, nRel,
                   overlapped, nRuns>>
    /\ UNCHANGED storeVars
    /\ UNCHANGED lifeVars
    /\ UNCHANGED dataVars
    /\ UNCHANGED batchVars
    /\ UNCHANGED execVars
    /\ UNCHANGED hookVars

\* pool.acquire() raises: opening a physical connection fails, or close()
\* has been called on the pool.
AcquireFails(t) ==
    /\ pc[t] = "acquire"
    /\ FreeConns(lpool[t]) # {} \/ lpool[t] \in closing
    /\ pc' = [pc EXCEPT ![t] = "done"]
    /\ result' = [result EXCEPT ![t] = Raised(t)]
    /\ lpool' = [lpool EXCEPT ![t] = NoPool]
    /\ UNCHANGED <<mgrPool, nPools, used, op, conn, nAcq, nRel,
                   overlapped, nRuns>>
    /\ UNCHANGED storeVars
    /\ UNCHANGED lifeVars
    /\ UNCHANGED dataVars
    /\ UNCHANGED batchVars
    /\ UNCHANGED execVars
    /\ UNCHANGED hookVars

\* Mutant: the probe of create_tables placed inside its `try`, so that a
\* failing probe reaches the except branch.
PingInsideTry(t) ==
    /\ pc[t] = "ping"
    /\ \E ok \in BOOLEAN :
        IF ok
          THEN /\ pc' = [pc EXCEPT ![t] =
                            CASE op[t] = "connection" -> "body"
                              [] op[t] = "create_tables" -> "ct_begin"
                              [] op[t] = "submit_answers" -> "sa_begin"
                              [] OTHER -> "release"]
               /\ result' = [result EXCEPT ![t] =
                                IF op[t] = "test_connection" THEN "true" ELSE "none"]
          ELSE /\ pc' = [pc EXCEPT ![t] =
                            IF op[t] = "create_tables"
                                THEN "ct_rollback" ELSE "release"]
               /\ result' = [result EXCEPT ![t] =
                                IF op[t] = "create_tables"
                                    THEN "none" ELSE Raised(t)]
    /\ UNCHANGED <<mgrPool, nPools, used, op, lpool, conn, nAcq, nRel,
                   overlapped, nRuns>>
    /\ UNCHANGED storeVars
    /\ UNCHANGED lifeVars
    /\ UNCHANGED dataVars
    /\ UNCHANGED batchVars
    /\ UNCHANGED execVars
    /\ UNCHANGED hookVars

\* `await conn.ping(reconnect=True)` in connection() and test_connection().
Ping(t) ==
    /\ pc[t] = "ping"
    /\ \E ok \in BOOLEAN :
        IF ok
          THEN /\ pc' = [pc EXCEPT ![t] =
                            CASE op[t] = "connection" -> "body"
                              [] op[t] = "create_tables" -> "ct_begin"
                              [] op[t] = "submit_answers" -> "sa_begin"
                              [] OTHER -> "release"]
               /\ result' = [result EXCEPT ![t] =
                                IF op[t] = "test_connection" THEN "true" ELSE "none"]
          ELSE /\ pc' = [pc EXCEPT ![t] = "release"]
               /\ result' = [result EXCEPT ![t] = Raised(t)]
    /\ UNCHANGED <<mgrPool, nPools, used, op, lpool, conn, nAcq, nRel,
                   overlapped, nRuns>>
    /\ UNCHANGED storeVars
    /\ UNCHANGED lifeVars
    /\ UNCHANGED dataVars
    /\ UNCHANGED batchVars
    /\ UNCHANGED execVars
    /\ UNCHANGED hookVars

\* Another task is inside a connection() scope, holding its connection.
OthersInScope(t) ==
    \E u \in Tasks \ {t} : op[u] = "connection" /\ conn[u] # NoConn

\* The body of an `async with db.connection() as conn:` block of a caller:
\* it completes or raises.
ScopedBody(t) ==
    /\ pc[t] = "body"
    /\ \E ok \in BOOLEAN :
        /\ result' = [result EXCEPT ![t] = IF ok THEN "returned" ELSE "raised"]
        /\ overlapped' = [overlapped EXCEPT ![t] = ~ok /\ OthersInScope(t)]
    /\ pc' = [pc EXCEPT ![t] = "release"]
    /\ UNCHANGED <<mgrPool, nPools, used, op, lpool, conn, nAcq, nRel, nRuns>>
    /\ UNCHANGED storeVars
    /\ UNCHANGED lifeVars
    /\ UNCHANGED dataVars
    /\ UNCHANGED batchVars
    /\ UNCHANGED execVars
    /\ UNCHANGED hookVars

\* `await cursor.execute(...)` / executemany / fetch of a query helper.
HelperStmt(t) ==
    /\ pc[t] = "stmt"
    /\ \E ok \in BOOLEAN :
        IF ok
          THEN IF op[t] \in {"execute", "executemany"}
                 THEN /\ pc' = [pc EXCEPT ![t] = "commit"]
                      /\ UNCHANGED result
                 ELSE /\ pc' = [pc EXCEPT ![t] = "release"]
                      /\ result' = [result EXCEPT ![t] = "returned"]
          ELSE /\ pc' = [pc EXCEPT ![t] = "release"]
               /\ result' = [result EXCEPT ![t] = "raised"]
    /\ UNCHANGED <<mgrPool, nPools, used, op, lpool, conn, nAcq, nRel,
                   overlapped, nRuns>>
    /\ UNCHANGED storeVars
    /\ UNCHANGED lifeVars
    /\ UNCHANGED dataVars
    /\ UNCHANGED batchVars
    /\ UNCHANGED execVars
    /\ UNCHANGED hookVars

\* The writes a connection has made and not committed.
PendingOn(c) == {pw[2] : pw \in {x \in pending : x[1] = c}}



\* `cursor.lastrowid or 0`: lastrowid is <<>> for None, <<n>> for the int n.
OrZero(l) == IF l = <<>> \/ l[1] = 0 THEN 0 ELSE l[1]

\* `await conn.commit()` of execute / executemany: the connection's pending
\* writes become durable together; when the commit raises they stay
\* uncommitted. execute then returns `cursor.lastrowid or 0`.
HelperCommit(t) ==
    /\ pc[t] = "commit"
    /\ nCommit' = [nCommit EXCEPT ![t] = nCommit[t] + 1]
    /\ UNCHANGED lastrowid
    /\ \E ok \in BOOLEAN :
        /\ result' = [result EXCEPT ![t] = IF ok THEN "returned" ELSE "raised"]
        /\ execRet' = [execRet EXCEPT ![t] =
                          IF ok /\ op[t] = "execute"
                              THEN OrZero(lastrowid[t]) ELSE execRet[t]]
        /\ durable' = IF ok THEN durable \cup PendingOn(conn[t]) ELSE durable
        /\ pending' = IF ok THEN {pw \in pending : pw[1] # conn[t]} ELSE pending
        /\ outcome' = IF ok /\ callOf[t] # 0
                        THEN outcome \cup {<<callOf[t], blen[t], bi[t], "ok">>}
                        ELSE outcome
    /\ UNCHANGED <<bi, fetched, retval, qtext, assessmentId, nextId>>
    /\ UNCHANGED batchVars
    /\ pc' = [pc EXCEPT ![t] = "release"]
    /\ UNCHANGED <<mgrPool, nPools, used, op, lpool, conn, nAcq, nRel,
                   overlapped, nRuns>>
    /\ UNCHANGED storeVars
    /\ UNCHANGED lifeVars
    /\ UNCHANGED hookVars

\* Mutant: a pool that puts a connection with an open transaction back on
\* its free list.
PendingKept(c) == pending

\* pool.release(conn) closes a connection that is still inside a transaction:
\* the server discards its uncommitted writes.
PendingAfterRelease(c) == {pw \in pending : pw[1] # c}

\* The exit of the scope that borrowed the connection: `finally:
\* pool.release(conn)` of connection(), or the exit of `async with
\* pool.acquire() as conn`.
Release(t) ==
    /\ pc[t] = "release"
    /\ pending' = PendingAfterRelease(conn[t])
    /\ UNCHANGED <<durable, bi, outcome, fetched, retval, qtext, assessmentId,
                   nextId>>
    /\ UNCHANGED batchVars
    /\ used' = Released(t)
    /\ conn' = [conn EXCEPT ![t] = NoConn]
    /\ nRel' = [nRel EXCEPT ![t] = nRel[t] + 1]
    /\ pc' = [pc EXCEPT ![t] = "done"]
    /\ lpool' = [lpool EXCEPT ![t] = NoPool]
    /\ UNCHANGED <<mgrPool, nPools, op, result, nAcq, overlapped, nRuns>>
    /\ UNCHANGED storeVars
    /\ UNCHANGED lifeVars
    /\ UNCHANGED execVars
    /\ UNCHANGED hookVars

\* The caller has its result (or exception); the task is free for the next
\* request.
Finish(t) ==
    /\ pc[t] = "done"
    /\ pc' = [pc EXCEPT ![t] = "idle"]
    /\ op' = [op EXCEPT ![t] = "none"]
    /\ lpool' = [lpool EXCEPT ![t] = NoPool]
    /\ result' = [result EXCEPT ![t] = "none"]
    /\ nAcq' = [nAcq EXCEPT ![t] = 0]
    /\ nRel' = [nRel EXCEPT ![t] = 0]
    /\ overlapped' = [overlapped EXCEPT ![t] = FALSE]
    /\ began' = [began EXCEPT ![t] = FALSE]
    /\ count' = [count EXCEPT ![t] = 0]
    /\ err' = [err EXCEPT ![t] = "none"]
    /\ changed' = [changed EXCEPT ![t] = FALSE]
    /\ rerun' = [rerun EXCEPT ![t] = FALSE]
    /\ bi' = [bi EXCEPT ![t] = 0]
    /\ fetched' = [fetched EXCEPT ![t] = <<>>]
    /\ retval' = [retval EXCEPT ![t] = Unset]
    /\ callOf' = [callOf EXCEPT ![t] = 0]
    /\ blen' = [blen EXCEPT ![t] = 0]
    /\ user' = [user EXCEPT ![t] = 0]
    /\ answers' = [answers EXCEPT ![t] = <<>>]
    /\ qtext' = [qtext EXCEPT ![t] = <<>>]
    /\ assessmentId' = [assessmentId EXCEPT ![t] = 0]
    /\ nCommit' = [nCommit EXCEPT ![t] = 0]
    /\ lastrowid' = [lastrowid EXCEPT ![t] = <<>>]
    /\ execRet' = [execRet EXCEPT ![t] = NoReturn]
    /\ UNCHANGED hookVars
    /\ UNCHANGED <<mgrPool, nPools, used, conn, nRuns, seed, schema, rows, txn,
                   idx, k, reconciled, pending, durable, outcome, nCalls, nextId>>
    /\ UNCHANGED lifeVars

\* ------------------------------------------------------------ helper data
\* The result sets the server may answer a SELECT with, rows in order.
ResultSets == {<<>>, <<"r1">>, <<"r2", "r1">>}

\* Mutant: `return dict(row)` without the test, which raises on None.
FetchOneReturnUnguarded(rs) == IF Len(rs) = 0 THEN "TypeError" ELSE rs[1]

\* `row = await cursor.fetchone()`, `return dict(row) if row else None`:
\* fetchone() gives the first row of the result set, or None.
FetchOneReturn(rs) ==
    LET row == IF Len(rs) = 0 THEN None ELSE rs[1]
    IN  IF row # None THEN row ELSE None

\* fetch_one: `await cursor.execute(query, params)`, fetchone, return.
FetchOneStmt(t) ==
    /\ pc[t] = "stmt"
    /\ op[t] = "fetch_one"
    /\ \E ok \in BOOLEAN, rs \in ResultSets :
        IF ok
          THEN /\ fetched' = [fetched EXCEPT ![t] = rs]
               /\ retval' = [retval EXCEPT ![t] = FetchOneReturn(rs)]
               /\ result' = [result EXCEPT ![t] =
                                IF FetchOneReturn(rs) = "TypeError"
                                    THEN "raised" ELSE "returned"]
          ELSE /\ result' = [result EXCEPT ![t] = "raised"]
               /\ UNCHANGED <<fetched, retval>>
    /\ pc' = [pc EXCEPT ![t] = "release"]
    /\ UNCHANGED <<mgrPool, nPools, used, op, lpool, conn, nAcq, nRel,
                   overlapped, nRuns, pending, durable, bi, outcome, qtext,
                   assessmentId, nextId>>
    /\ UNCHANGED storeVars
    /\ UNCHANGED lifeVars
    /\ UNCHANGED batchVars
    /\ UNCHANGED execVars
    /\ UNCHANGED hookVars

\* executemany: `await cursor.executemany(query, list(params_seq))` runs the
\* statement once per parameter set, each inside the connection's open
\* transaction; the first one that fails raises out of executemany, past
\* the commit.
ExecManyStmt(t) ==
    /\ pc[t] = "stmt"
    /\ op[t] = "executemany"
    /\ \E ok \in BOOLEAN :
        IF ok
          THEN /\ pending' = pending \cup {<<conn[t], <<callOf[t], bi[t] + 1>>>>}
               /\ bi' = [bi EXCEPT ![t] = bi[t] + 1]
               /\ pc' = [pc EXCEPT ![t] =
                            IF bi[t] + 1 = blen[t] THEN "commit" ELSE "stmt"]
               /\ UNCHANGED <<result, outcome>>
          ELSE /\ outcome' = outcome \cup {<<callOf[t], blen[t], bi[t], "failed">>}
               /\ pc' = [pc EXCEPT ![t] = "release"]
               /\ result' = [result EXCEPT ![t] = "raised"]
               /\ UNCHANGED <<pending, bi>>
    /\ UNCHANGED <<mgrPool, nPools, used, op, lpool, conn, nAcq, nRel,
                   overlapped, nRuns, durable, fetched, retval, qtext,
                   assessmentId, nextId>>
    /\ UNCHANGED storeVars
    /\ UNCHANGED lifeVars
    /\ UNCHANGED batchVars
    /\ UNCHANGED execVars
    /\ UNCHANGED hookVars

\* cursor.lastrowid once a statement has run: None when the cursor holds no
\* result, 0 when the statement generated no id, else the generated id.
LastRowIds == {<<>>, <<0>>, <<7>>}

\* Mutant: execute with `except Exception: pass` around the statement.
ExecuteStmtSwallows(t) ==
    /\ pc[t] = "stmt"
    /\ op[t] = "execute"
    /\ \E ok \in BOOLEAN, l \in LastRowIds :
        IF ok
          THEN /\ lastrowid' = [lastrowid EXCEPT ![t] = l]
               /\ pc' = [pc EXCEPT ![t] = "commit"]
               /\ UNCHANGED result
          ELSE /\ pc' = [pc EXCEPT ![t] = "release"]
               /\ result' = [result EXCEPT ![t] = "returned"]
               /\ UNCHANGED lastrowid
    /\ UNCHANGED <<nCommit, execRet>>
    /\ UNCHANGED <<mgrPool, nPools, used, op, lpool, conn, nAcq, nRel,
                   overlapped, nRuns>>
    /\ UNCHANGED storeVars
    /\ UNCHANGED lifeVars
    /\ UNCHANGED dataVars
    /\ UNCHANGED batchVars
    /\ UNCHANGED hookVars

\* execute: `await cursor.execute(query, params or ())`; when it raises, the
\* exception leaves execute through the two context managers, past the
\* commit.
ExecuteStmt(t) ==
    /\ pc[t] = "stmt"
    /\ op[t] = "execute"
    /\ \E ok \in BOOLEAN, l \in LastRowIds :
        IF ok
          THEN /\ lastrowid' = [lastrowid EXCEPT ![t] = l]
               /\ pc' = [pc EXCEPT ![t] = "commit"]
               /\ UNCHANGED result
          ELSE /\ pc' = [pc EXCEPT ![t] = "release"]
               /\ result' = [result EXCEPT ![t] = "raised"]
               /\ UNCHANGED lastrowid
    /\ UNCHANGED <<nCommit, execRet>>
    /\ UNCHANGED <<mgrPool, nPools, used, op, lpool, conn, nAcq, nRel,
                   overlapped, nRuns>>
    /\ UNCHANGED storeVars
    /\ UNCHANGED lifeVars
    /\ UNCHANGED dataVars
    /\ UNCHANGED batchVars
    /\ UNCHANGED hookVars

\* fetch_all: `await cursor.execute(query, params or ())`, fetchall, return.
FetchAllStmt(t) ==
    /\ op[t] = "fetch_all"
    /\ HelperStmt(t)

\* ------------------------------------------------------------ submit_answers
\* `len(answers) != 22`, `value < 1 or value > 5`.
NumAnswers == 22
MinValue == 1
MaxValue == 5

\* The columns of soft_skills_self_assessment that hold the answers. A key
\* of the answers dict is modelled by a number: i in 1..22 stands for the
\* name of the i-th answer column, any other number for a string that names
\* no column.
AnswerColumns == 1..NumAnswers

\* The keys a..b in order.
KeySeq(a, b) == [i \in 1..(b - a + 1) |-> a + i - 1]

\* An answers dict with the given keys, every value v.
Entries(keys, v) == [i \in 1..Len(keys) |-> <<keys[i], v>>]

\* The request bodies handlers pass on: 22 answers in range (twice, with
\* different values), 21 and 23 answers, a value of 6, a value of 0, and 22
\* answers in range one of whose keys names no column.
AnswerInputs ==
    {Entries(KeySeq(1, 22), 3),
     Entries(KeySeq(1, 22), 5),
     Entries(KeySeq(1, 21), 3),
     Entries(KeySeq(1, 23), 3),
     [Entries(KeySeq(1, 22), 3) EXCEPT ![7] = <<7, 6>>],
     [Entries(KeySeq(1, 22), 3) EXCEPT ![7] = <<7, 0>>],
     Entries(KeySeq(0, 21), 3)}

\* user_id of the authenticated user; 0 is falsy.
Users == {0, 1}

\* The two checks at the head of submit_answers: the status of the
\* ServiceError they raise, or "valid".
Validate(u, a) ==
    IF u = 0 THEN "401"
    ELSE IF Len(a) # NumAnswers
            \/ \E i \in 1..Len(a) : a[i][2] < MinValue \/ a[i][2] > MaxValue
        THEN "400"
    ELSE "valid"

\* The text of the first statement.
InsertText == <<"INSERT INTO soft_skills_self_assessment (user_id) VALUES (%s)">>

\* set_clause = ", ".join(f"{key} = %s" for key in answers.keys())
SetClause(a) == [i \in 1..Len(a) |-> <<a[i][1], " = %s">>]

\* f"UPDATE soft_skills_self_assessment SET {set_clause} WHERE id = %s"
UpdateText(a) ==
    <<"UPDATE soft_skills_self_assessment SET ", SetClause(a), " WHERE id = %s">>

\* Valid submissions that have not reached their INSERT yet.
BeforeInsert ==
    {u \in Tasks : op[u] = "submit_answers" /\ pc[u] \notin {"idle", "done"}
                   /\ assessmentId[u] = 0}

\* A handler calls submit_answers(user_id, answers): the two checks, then
\* `async with self._database.connection()` up to the first await of
\* get_pool().
SubmitAnswers(t) ==
    /\ pc[t] = "idle"
    /\ \E u \in Users, a \in AnswerInputs :
        /\ user' = [user EXCEPT ![t] = u]
        /\ answers' = [answers EXCEPT ![t] = a]
        /\ IF Validate(u, a) = "valid"
             THEN /\ nextId + Cardinality(BeforeInsert) < MaxIds
                  /\ Enter(t, "submit_answers")
             ELSE /\ op' = [op EXCEPT ![t] = "submit_answers"]
                  /\ pc' = [pc EXCEPT ![t] = "done"]
                  /\ result' = [result EXCEPT ![t] = Validate(u, a)]
                  /\ UNCHANGED <<mgrPool, nPools, used, lpool, conn, nAcq, nRel,
                                 overlapped>>
                  /\ UNCHANGED storeVars
                  /\ UNCHANGED lifeVars
                  /\ UNCHANGED dataVars
                  /\ UNCHANGED execVars
                  /\ UNCHANGED hookVars
    /\ UNCHANGED <<nRuns, nCalls, callOf, blen>>

\* What a step of the body of submit_answers leaves alone.
submitFrame == <<mgrPool, nPools, used, op, lpool, conn, nAcq, nRel, overlapped,
                 nRuns, seed, schema, rows, txn, began, idx, k, count, changed,
                 reconciled, rerun, durable, bi, outcome, fetched, retval>>

\* `await conn.begin()`.
SaBegin(t) ==
    /\ pc[t] = "sa_begin"
    /\ \E ok \in BOOLEAN :
        /\ pc' = [pc EXCEPT ![t] = IF ok THEN "sa_insert" ELSE "sa_rollback"]
        /\ err' = [err EXCEPT ![t] = IF ok THEN "none" ELSE "fault"]
    /\ UNCHANGED <<result, pending, qtext, assessmentId, nextId>>
    /\ UNCHANGED submitFrame
    /\ UNCHANGED lifeVars
    /\ UNCHANGED batchVars
    /\ UNCHANGED execVars
    /\ UNCHANGED hookVars

\* `await cursor.execute("INSERT ... (user_id) VALUES (%s)", (user_id,))`,
\* `assessment_id = cursor.lastrowid`.
SaInsert(t) ==
    /\ pc[t] = "sa_insert"
    /\ qtext' = [qtext EXCEPT ![t] = Append(qtext[t], InsertText)]
    /\ \E ok \in BOOLEAN :
        IF ok
          THEN /\ nextId' = nextId + 1
               /\ assessmentId' = [assessmentId EXCEPT ![t] = nextId + 1]
               /\ pending' = pending \cup {<<conn[t], <<"row", nextId + 1>>>>}
               /\ pc' = [pc EXCEPT ![t] = "sa_update"]
               /\ UNCHANGED err
          ELSE /\ err' = [err EXCEPT ![t] = "fault"]
               /\ pc' = [pc EXCEPT ![t] = "sa_rollback"]
               /\ UNCHANGED <<nextId, assessmentId, pending>>
    /\ UNCHANGED result
    /\ UNCHANGED submitFrame
    /\ UNCHANGED lifeVars
    /\ UNCHANGED batchVars
    /\ UNCHANGED execVars
    /\ UNCHANGED hookVars

\* `await cursor.execute(f"UPDATE ... SET {set_clause} WHERE id = %s", ...)`:
\* the server refuses a SET clause that names an unknown column.
SaUpdate(t) ==
    /\ pc[t] = "sa_update"
    /\ qtext' = [qtext EXCEPT ![t] = Append(qtext[t], UpdateText(answers[t]))]
    /\ \E fault \in BOOLEAN :
        LET e == IF fault THEN "fault"
                 ELSE IF \E i \in 1..Len(answers[t]) :
                            answers[t][i][1] \notin AnswerColumns
                     THEN "no_column"
                 ELSE "none"
        IN  /\ err' = [err EXCEPT ![t] = e]
            /\ pc' = [pc EXCEPT ![t] = IF e = "none" THEN "sa_commit" ELSE "sa_rollback"]
            /\ pending' = IF e = "none"
                            THEN pending \cup {<<conn[t], <<"answers", assessmentId[t]>>>>}
                            ELSE pending
    /\ UNCHANGED <<result, assessmentId, nextId>>
    /\ UNCHANGED submitFrame
    /\ UNCHANGED lifeVars
    /\ UNCHANGED batchVars
    /\ UNCHANGED execVars
    /\ UNCHANGED hookVars

\* `await conn.commit()`, `return {"success": True, ...}`.
SaCommit(t) ==
    /\ pc[t] = "sa_commit"
    /\ \E ok \in BOOLEAN :
        IF ok
          THEN /\ durable' = durable \cup PendingOn(conn[t])
               /\ pending' = {pw \in pending : pw[1] # conn[t]}
               /\ result' = [result EXCEPT ![t] = "ok"]
               /\ pc' = [pc EXCEPT ![t] = "release"]
               /\ UNCHANGED err
          ELSE /\ err' = [err EXCEPT ![t] = "fault"]
               /\ pc' = [pc EXCEPT ![t] = "sa_rollback"]
               /\ UNCHANGED <<durable, pending, result>>
    /\ UNCHANGED <<mgrPool, nPools, used, op, lpool, conn, nAcq, nRel, overlapped,
                   nRuns, seed, schema, rows, txn, began, idx, k, count, changed,
                   reconciled, rerun, bi, outcome, fetched, retval, qtext,
                   assessmentId, nextId>>
    /\ UNCHANGED lifeVars
    /\ UNCHANGED batchVars
    /\ UNCHANGED execVars
    /\ UNCHANGED hookVars

\* `except Exception: await conn.rollback()`, `raise ServiceError(...,
\* status_code=500)`; when the rollback itself raises, that exception leaves
\* submit_answers.
SaRollback(t) ==
    /\ pc[t] = "sa_rollback"
    /\ \E ok \in BOOLEAN :
        result' = [result EXCEPT ![t] = IF ok THEN "500" ELSE "raised"]
    /\ pending' = {pw \in pending : pw[1] # conn[t]}
    /\ pc' = [pc EXCEPT ![t] = "release"]
    /\ UNCHANGED <<err, qtext, assessmentId, nextId>>
    /\ UNCHANGED submitFrame
    /\ UNCHANGED lifeVars
    /\ UNCHANGED batchVars
    /\ UNCHANGED execVars
    /\ UNCHANGED hookVars

\* ------------------------------------------------------------ close
\* Mutant: close() without the test, calling close() on None.
HasPoolUnchecked == TRUE

\* `if self._pool is not None:`
HasPool == mgrPool # NoPool

\* close() up to its first await: without a pool it returns at once;
\* otherwise `self._pool.close()` marks the pool as closing and the task
\* waits in `await self._pool.wait_closed()`.
CloseCall(t) ==
    /\ pc[t] = "idle"
    /\ op' = [op EXCEPT ![t] = "close"]
    /\ IF ~HasPool
         THEN /\ pc' = [pc EXCEPT ![t] = "done"]
              /\ result' = [result EXCEPT ![t] = "returned"]
              /\ UNCHANGED <<lpool, closing>>
         ELSE IF mgrPool = NoPool
         THEN /\ pc' = [pc EXCEPT ![t] = "done"]
              /\ result' = [result EXCEPT ![t] = "raised"]
              /\ UNCHANGED <<lpool, closing>>
         ELSE /\ pc' = [pc EXCEPT ![t] = "cl_wait"]
              /\ result' = [result EXCEPT ![t] = "none"]
              /\ lpool' = [lpool EXCEPT ![t] = mgrPool]
              /\ closing' = closing \cup {mgrPool}
    /\ UNCHANGED <<mgrPool, nPools, used, conn, nAcq, nRel, overlapped, nRuns,
                   maxsize, closedPools>>
    /\ UNCHANGED storeVars
    /\ UNCHANGED dataVars
    /\ UNCHANGED batchVars
    /\ UNCHANGED execVars
    /\ UNCHANGED hookVars

\* The connections of pool p that are borrowed.
Borrowed(p) == used \cap ConnsOf(p)

\* wait_closed() returns once every connection of the pool has been released
\* (and closed).
Drained(p) == Borrowed(p) = {}

\* `await self._pool.wait_closed()` returns, `self._pool = None`.
CloseWait(t) ==
    /\ pc[t] = "cl_wait"
    /\ Drained(lpool[t])
    /\ closedPools' = closedPools \cup {lpool[t]}
    /\ mgrPool' = NoPool
    /\ pc' = [pc EXCEPT ![t] = "done"]
    /\ result' = [result EXCEPT ![t] = "returned"]
    /\ UNCHANGED <<nPools, used, op, lpool, conn, nAcq, nRel, overlapped, nRuns,
                   maxsize, closing>>
    /\ UNCHANGED storeVars
    /\ UNCHANGED dataVars
    /\ UNCHANGED batchVars
    /\ UNCHANGED execVars
    /\ UNCHANGED hookVars

\* shutdown_event: `await db_manager.close()` up to its first await. Without
\* a pool close() returns at once; otherwise `self._pool.close()` marks the
\* pool as closing and the hook waits in `await self._pool.wait_closed()`.
HookClose ==
    /\ hook = "idle"
    /\ IF HasPool
         THEN /\ hook' = "cl_wait"
              /\ hookPool' = mgrPool
              /\ closing' = closing \cup {mgrPool}
         ELSE /\ hook' = "done"
              /\ UNCHANGED <<hookPool, closing>>
    /\ UNCHANGED <<mgrPool, nPools, used, pc, op, lpool, conn, result, nAcq,
                   nRel, overlapped, nRuns, maxsize, closedPools>>
    /\ UNCHANGED storeVars
    /\ UNCHANGED dataVars
    /\ UNCHANGED batchVars
    /\ UNCHANGED execVars

\* The hook's `await self._pool.wait_closed()` returns once the pool has
\* drained, `self._pool = None`.
HookWait ==
    /\ hook = "cl_wait"
    /\ Drained(hookPool)
    /\ closedPools' = closedPools \cup {hookPool}
    /\ mgrPool' = NoPool
    /\ hook' = "done"
    /\ UNCHANGED <<nPools, used, pc, op, lpool, conn, result, nAcq, nRel,
                   overlapped, nRuns, maxsize, closing, hookPool>>
    /\ UNCHANGED storeVars
    /\ UNCHANGED dataVars
    /\ UNCHANGED batchVars
    /\ UNCHANGED execVars

\* ------------------------------------------------------------ reconciler
\* What a step of create_tables leaves alone on the manager's side.
managerSide == <<mgrPool, nPools, used, op, lpool, conn, nAcq, nRel,
                 overlapped, nRuns, seed>>

\* Where create_tables continues at statement i of _initialize_schema:
\* past the last one, at `await conn.commit()`.
StmtPc(i) ==
    IF i > Len(Statements) THEN "ct_commit"
    ELSE IF Statements[i].kind = "seed" THEN "ct_count"
    ELSE "ct_stmt"

\* idx once statement i is reached: 0 outside _initialize_schema.
StmtIdx(i) == IF i > Len(Statements) THEN 0 ELSE i

\* Another connection holds uncommitted writes (row locks) on the
\* reference table: a write of t's connection waits for them.
OthersDirty(t) == \E u \in Tasks \ {t} : txn[u].dirty

\* The rows t's connection reads and writes: its own writes over the
\* committed rows.
View(t) == IF txn[t].dirty THEN txn[t].view ELSE rows

\* `await conn.begin()`; an exception leads to the except branch.
Begin(t) ==
    /\ pc[t] = "ct_begin"
    /\ \E ok \in BOOLEAN :
        IF ok
          THEN /\ began' = [began EXCEPT ![t] = TRUE]
               /\ idx' = [idx EXCEPT ![t] = 1]
               /\ pc' = [pc EXCEPT ![t] = StmtPc(1)]
               /\ rerun' = [rerun EXCEPT ![t] = reconciled]
               /\ UNCHANGED err
          ELSE /\ err' = [err EXCEPT ![t] = "fault"]
               /\ pc' = [pc EXCEPT ![t] = "ct_rollback"]
               /\ UNCHANGED <<began, idx, rerun>>
    /\ UNCHANGED <<result, schema, rows, txn, k, count, changed, reconciled>>
    /\ UNCHANGED managerSide
    /\ UNCHANGED lifeVars
    /\ UNCHANGED dataVars
    /\ UNCHANGED batchVars
    /\ UNCHANGED execVars
    /\ UNCHANGED hookVars

\* `await cursor.execute("CREATE TABLE IF NOT EXISTS ..." / "ALTER TABLE
\* ...")`. The server commits the connection's open transaction before it
\* runs a DDL statement, and the statement's own effect is not part of any
\* transaction. A fault (lost connection, timeout) hits before or after that
\* implicit commit.
ExecDDL(t) ==
    /\ pc[t] = "ct_stmt"
    /\ \E fault, committed \in BOOLEAN :
        LET st == Statements[idx[t]]
            e == IF fault THEN "fault" ELSE DDLError(schema, st)
        IN  /\ fault \/ committed
            /\ rows' = IF committed THEN View(t) ELSE rows
            /\ txn' = IF committed THEN [txn EXCEPT ![t] = NoTxn] ELSE txn
            /\ IF e = "none"
                 THEN /\ schema' = DDLEffect(schema, st)
                      /\ idx' = [idx EXCEPT ![t] = StmtIdx(idx[t] + 1)]
                      /\ pc' = [pc EXCEPT ![t] = StmtPc(idx[t] + 1)]
                      /\ UNCHANGED err
                 ELSE /\ err' = [err EXCEPT ![t] = e]
                      /\ pc' = [pc EXCEPT ![t] = "ct_rollback"]
                      /\ idx' = [idx EXCEPT ![t] = 0]
                      /\ UNCHANGED schema
    /\ changed' = [changed EXCEPT ![t] = @ \/ schema' # schema \/ rows' # rows]
    /\ UNCHANGED <<result, began, k, count, reconciled, rerun>>
    /\ UNCHANGED managerSide
    /\ UNCHANGED lifeVars
    /\ UNCHANGED dataVars
    /\ UNCHANGED batchVars
    /\ UNCHANGED execVars
    /\ UNCHANGED hookVars

\* Where the seed block continues after the count: the bulk INSERT when the
\* table is empty and the seed set is not (`if placeholders:`), the UPDATE
\* loop when the table has rows, the next statement otherwise.
AfterCount(i, n, tests) ==
    IF Len(tests) = 0 THEN StmtPc(i + 1)
    ELSE IF n = 0 THEN "ct_insert" ELSE "ct_update"

\* `SELECT COUNT(*) as count FROM personality_assessments`, fetchone.
CountRows(t) ==
    /\ pc[t] = "ct_count"
    /\ \E fault \in BOOLEAN :
        IF fault
          THEN /\ err' = [err EXCEPT ![t] = "fault"]
               /\ pc' = [pc EXCEPT ![t] = "ct_rollback"]
               /\ idx' = [idx EXCEPT ![t] = 0]
               /\ UNCHANGED <<count, k>>
          ELSE /\ count' = [count EXCEPT ![t] = Cardinality(View(t))]
               /\ pc' = [pc EXCEPT ![t] =
                            AfterCount(idx[t], Cardinality(View(t)), seed)]
               /\ idx' = [idx EXCEPT ![t] =
                             IF Len(seed) = 0 THEN StmtIdx(idx[t] + 1) ELSE idx[t]]
               /\ k' = [k EXCEPT ![t] =
                           IF Len(seed) = 0 \/ Cardinality(View(t)) = 0 THEN 0 ELSE 1]
               /\ UNCHANGED err
    /\ UNCHANGED <<result, schema, rows, txn, began, changed, reconciled, rerun>>
    /\ UNCHANGED managerSide
    /\ UNCHANGED lifeVars
    /\ UNCHANGED dataVars
    /\ UNCHANGED batchVars
    /\ UNCHANGED execVars
    /\ UNCHANGED hookVars

\* The bulk `INSERT INTO personality_assessments ... VALUES ...` of the whole
\* seed set: one statement, refused as a whole on a duplicate slug.
SeedInsert(t) ==
    /\ pc[t] = "ct_insert"
    /\ \E fault \in BOOLEAN :
        LET e == IF fault THEN "fault"
                 ELSE IF DuplicateKey(View(t), seed) THEN "duplicate"
                 ELSE "none"
        IN  /\ fault \/ ~OthersDirty(t)
            /\ IF e = "none"
                 THEN /\ txn' = [txn EXCEPT ![t] =
                                    [dirty |-> TRUE,
                                     view |-> ApplyInsert(View(t), seed)]]
                      /\ idx' = [idx EXCEPT ![t] = StmtIdx(idx[t] + 1)]
                      /\ pc' = [pc EXCEPT ![t] = StmtPc(idx[t] + 1)]
                      /\ UNCHANGED err
                 ELSE /\ err' = [err EXCEPT ![t] = e]
                      /\ pc' = [pc EXCEPT ![t] = "ct_rollback"]
                      /\ idx' = [idx EXCEPT ![t] = 0]
                      /\ UNCHANGED txn
    /\ UNCHANGED <<result, schema, rows, began, k, count, changed, reconciled,
                   rerun>>
    /\ UNCHANGED managerSide
    /\ UNCHANGED lifeVars
    /\ UNCHANGED dataVars
    /\ UNCHANGED batchVars
    /\ UNCHANGED execVars
    /\ UNCHANGED hookVars

\* One `UPDATE personality_assessments SET ... WHERE slug = %s` of the loop
\* over the seed set.
SeedUpdate(t) ==
    /\ pc[t] = "ct_update"
    /\ \E fault \in BOOLEAN :
        /\ fault \/ ~OthersDirty(t)
        /\ IF fault
             THEN /\ err' = [err EXCEPT ![t] = "fault"]
                  /\ pc' = [pc EXCEPT ![t] = "ct_rollback"]
                  /\ idx' = [idx EXCEPT ![t] = 0]
                  /\ k' = [k EXCEPT ![t] = 0]
                  /\ UNCHANGED txn
             ELSE /\ txn' = [txn EXCEPT ![t] =
                                [dirty |-> TRUE,
                                 view |-> ApplyUpdate(View(t), seed[k[t]])]]
                  /\ IF k[t] < Len(seed)
                       THEN /\ k' = [k EXCEPT ![t] = k[t] + 1]
                            /\ UNCHANGED <<idx, pc>>
                       ELSE /\ idx' = [idx EXCEPT ![t] = StmtIdx(idx[t] + 1)]
                            /\ pc' = [pc EXCEPT ![t] = StmtPc(idx[t] + 1)]
                            /\ k' = [k EXCEPT ![t] = 0]
                  /\ UNCHANGED err
    /\ UNCHANGED <<result, schema, rows, began, count, changed, reconciled,
                   rerun>>
    /\ UNCHANGED managerSide
    /\ UNCHANGED lifeVars
    /\ UNCHANGED dataVars
    /\ UNCHANGED batchVars
    /\ UNCHANGED execVars
    /\ UNCHANGED hookVars

\* `await conn.commit()`, `return True`; an exception leads to the except
\* branch.
Commit(t) ==
    /\ pc[t] = "ct_commit"
    /\ \E ok \in BOOLEAN :
        IF ok
          THEN /\ rows' = View(t)
               /\ txn' = [txn EXCEPT ![t] = NoTxn]
               /\ result' = [result EXCEPT ![t] = "true"]
               /\ pc' = [pc EXCEPT ![t] = "release"]
               /\ reconciled' = TRUE
               /\ UNCHANGED err
          ELSE /\ err' = [err EXCEPT ![t] = "fault"]
               /\ pc' = [pc EXCEPT ![t] = "ct_rollback"]
               /\ UNCHANGED <<rows, txn, result, reconciled>>
    /\ changed' = [changed EXCEPT ![t] = @ \/ rows' # rows]
    /\ UNCHANGED <<schema, began, idx, k, count, rerun>>
    /\ UNCHANGED managerSide
    /\ UNCHANGED lifeVars
    /\ UNCHANGED dataVars
    /\ UNCHANGED batchVars
    /\ UNCHANGED execVars
    /\ UNCHANGED hookVars

\* `except Exception: await conn.rollback()`, `return False`. The rollback
\* discards the connection's uncommitted row writes; when the rollback itself
\* raises (the connection is gone) the server discards them and the exception
\* leaves create_tables.
Rollback(t) ==
    /\ pc[t] = "ct_rollback"
    /\ \E ok \in BOOLEAN :
        result' = [result EXCEPT ![t] = IF ok THEN "false" ELSE "raised"]
    /\ txn' = [txn EXCEPT ![t] = NoTxn]
    /\ pc' = [pc EXCEPT ![t] = "release"]
    /\ UNCHANGED <<schema, rows, began, idx, k, count, err, changed, reconciled,
                   rerun>>
    /\ UNCHANGED managerSide
    /\ UNCHANGED lifeVars
    /\ UNCHANGED dataVars
    /\ UNCHANGED batchVars
    /\ UNCHANGED execVars
    /\ UNCHANGED hookVars

\* ------------------------------------------------------------ specifications
Reconcile(t) ==
    \/ Begin(t)
    \/ ExecDDL(t)
    \/ CountRows(t)
    \/ SeedInsert(t)
    \/ SeedUpdate(t)
    \/ Commit(t)
    \/ Rollback(t)

\* Request-handling tasks calling every operation of the manager.
Next ==
    \E t \in Tasks :
        \/ Call(t)
        \/ CreatePool(t)
        \/ CreatePoolFails(t)
        \/ Acquire(t)
        \/ AcquireFails(t)
        \/ Ping(t)
        \/ ScopedBody(t)
        \/ HelperStmt(t)
        \/ HelperCommit(t)
        \/ Reconcile(t)
        \/ Release(t)
        \/ Finish(t)

Spec == Init /\ [][Next]_vars

\* Tasks calling create_tables, any number of times and concurrently.
NextSchema ==
    \E t \in Tasks :
        \/ CallCreateTables(t)
        \/ Acquire(t)
        \/ AcquireFails(t)
        \/ Ping(t)
        \/ Reconcile(t)
        \/ Release(t)
        \/ Finish(t)

SpecSchema == InitSchema /\ [][NextSchema]_vars

\* The operations request handlers and the health check call on the manager
\* while the application serves.
ServingOps == Ops \ {"create_tables"}

\* A fresh manager whose pool size is read from the environment.
InitLife ==
    /\ InitTasks
    /\ mgrPool = NoPool
    /\ nPools = 0
    /\ maxsize \in 1..MaxSize
    /\ seed = <<>>
    /\ schema = EmptySchema
    /\ rows = {}

\* A handler calls a query helper, connection(), get_pool() or
\* test_connection().
CallServing(t) ==
    /\ \E o \in ServingOps : Enter(t, o)
    /\ UNCHANGED nRuns
    /\ UNCHANGED batchVars

\* aiomysql.create_pool succeeds.
CreatePoolBounded(t) ==
    /\ nPools < MaxPools
    /\ CreatePool(t)

\* Handlers and the shutdown hook: every operation but create_tables, and
\* close().
NextLife ==
    \E t \in Tasks :
        \/ CallServing(t)
        \/ CreatePoolBounded(t)
        \/ CreatePoolFails(t)
        \/ Acquire(t)
        \/ AcquireFails(t)
        \/ Ping(t)
        \/ ScopedBody(t)
        \/ HelperStmt(t)
        \/ HelperCommit(t)
        \/ Release(t)
        \/ Finish(t)
        \/ CloseCall(t)
        \/ CloseWait(t)

SpecLife == InitLife /\ [][NextLife]_vars

\* The query helpers.
HelperOps == {"fetch_all", "fetch_one", "execute", "executemany"}

\* A handler calls a query helper.
CallHelper(t) ==
    /\ \E o \in HelperOps : Enter(t, o)
    /\ UNCHANGED nRuns
    /\ UNCHANGED batchVars

\* Handlers calling the query helpers concurrently.
NextHelpers ==
    \E t \in Tasks :
        \/ CallHelper(t)
        \/ CreatePool(t)
        \/ CreatePoolFails(t)
        \/ Acquire(t)
        \/ AcquireFails(t)
        \/ HelperStmt(t)
        \/ HelperCommit(t)
        \/ Release(t)
        \/ Finish(t)

\* The event loop resumes every coroutine whose await has completed: the
\* server answers each statement and commit, each scope exit runs, and a
\* borrower is served if connections keep becoming free.
FairHelpers ==
    \A t \in Tasks :
        /\ WF_vars(HelperStmt(t))
        /\ WF_vars(HelperCommit(t))
        /\ WF_vars(Release(t))
        /\ SF_vars(Acquire(t) \/ AcquireFails(t))

SpecHelpersFair == InitLife /\ [][NextHelpers]_vars /\ FairHelpers

\* A handler calls fetch_one, or executemany with a batch of parameter sets.
CallData(t) ==
    /\ \E o \in {"fetch_one", "executemany"} :
        /\ Enter(t, o)
        /\ IF o = "executemany"
             THEN /\ nCalls < MaxCalls
                  /\ nCalls' = nCalls + 1
                  /\ callOf' = [callOf EXCEPT ![t] = nCalls + 1]
                  /\ \E n \in 1..MaxBatch : blen' = [blen EXCEPT ![t] = n]
             ELSE UNCHANGED <<nCalls, callOf, blen>>
    /\ UNCHANGED <<nRuns, user, answers>>

\* Handlers reading with fetch_one and writing with executemany.
NextData ==
    \E t \in Tasks :
        \/ CallData(t)
        \/ CreatePool(t)
        \/ CreatePoolFails(t)
        \/ Acquire(t)
        \/ AcquireFails(t)
        \/ FetchOneStmt(t)
        \/ ExecManyStmt(t)
        \/ HelperCommit(t)
        \/ Release(t)
        \/ Finish(t)

SpecData == InitLife /\ [][NextData]_vars

\* A handler calls one of the four query helpers; executemany with a batch
\* of parameter sets.
CallQuery(t) ==
    /\ \E o \in HelperOps :
        /\ Enter(t, o)
        /\ IF o = "executemany"
             THEN /\ nCalls < MaxCalls
                  /\ nCalls' = nCalls + 1
                  /\ callOf' = [callOf EXCEPT ![t] = nCalls + 1]
                  /\ \E n \in 1..MaxBatch : blen' = [blen EXCEPT ![t] = n]
             ELSE UNCHANGED <<nCalls, callOf, blen>>
    /\ UNCHANGED <<nRuns, user, answers>>

\* Handlers calling the four query helpers, each statement with its own
\* outcome.
NextQuery ==
    \E t \in Tasks :
        \/ CallQuery(t)
        \/ CreatePool(t)
        \/ CreatePoolFails(t)
        \/ Acquire(t)
        \/ AcquireFails(t)
        \/ FetchAllStmt(t)
        \/ FetchOneStmt(t)
        \/ ExecuteStmt(t)
        \/ ExecManyStmt(t)
        \/ HelperCommit(t)
        \/ Release(t)
        \/ Finish(t)

SpecQuery == InitLife /\ [][NextQuery]_vars

\* A handler calls submit_answers with a submission that passes the checks,
\* the only ones for which it borrows a connection; no submission has
\* inserted its row yet.
SubmitValid(t) ==
    /\ nextId = 0 /\ BeforeInsert = {}
    /\ SubmitAnswers(t)
    /\ user'[t] = 1
    /\ answers'[t] = Entries(KeySeq(1, NumAnswers), 3)

\* The operations of the manager that borrow a connection, one of each
\* shape: a read helper, a write helper, the probe and the reconciler.
BorrowerOps == {"fetch_all", "execute", "test_connection", "create_tables"}

\* A handler or the health check calls one of them; create_tables once.
CallBorrower(t) ==
    /\ \E o \in BorrowerOps :
        /\ o = "create_tables" => nRuns < MaxRunsPool
        /\ Enter(t, o)
        /\ nRuns' = IF o = "create_tables" THEN nRuns + 1 ELSE nRuns
    /\ UNCHANGED batchVars

\* Every kind of operation that borrows a connection, called concurrently
\* on a manager whose pool size is read from the environment.
NextBorrowers ==
    \E t \in Tasks :
        \/ CallBorrower(t)
        \/ SubmitValid(t)
        \/ CreatePool(t)
        \/ CreatePoolFails(t)
        \/ Acquire(t)
        \/ AcquireFails(t)
        \/ Ping(t)
        \/ HelperStmt(t)
        \/ HelperCommit(t)
        \/ Reconcile(t)
        \/ SaBegin(t)
        \/ SaInsert(t)
        \/ SaUpdate(t)
        \/ SaCommit(t)
        \/ SaRollback(t)
        \/ Release(t)
        \/ Finish(t)

\* A fresh manager whose pool size is read from the environment; the store
\* is fresh or the one an earlier deployment left.
InitBorrowers ==
    /\ InitTasks
    /\ mgrPool = NoPool
    /\ nPools = 0
    /\ maxsize \in 1..MaxSize
    /\ seed = <<SeedA, SeedB, SeedC>>
    /\ \E s \in InitialStores :
        /\ schema = s.schema
        /\ rows = s.rows

SpecBorrowers == InitBorrowers /\ [][NextBorrowers]_vars

\* Handlers still serving requests while the application shuts down.
NextShutdown ==
    \/ HookClose
    \/ HookWait
    \/ \E t \in Tasks :
        \/ CallServing(t)
        \/ CreatePoolBounded(t)
        \/ CreatePoolFails(t)
        \/ Acquire(t)
        \/ AcquireFails(t)
        \/ Ping(t)
        \/ ScopedBody(t)
        \/ HelperStmt(t)
        \/ HelperCommit(t)
        \/ Release(t)
        \/ Finish(t)

SpecShutdown == InitLife /\ [][NextShutdown]_vars

\* Handlers of POST /api calling submit_answers concurrently.
NextSubmit ==
    \E t \in Tasks :
        \/ SubmitAnswers(t)
        \/ CreatePool(t)
        \/ CreatePoolFails(t)
        \/ Acquire(t)
        \/ AcquireFails(t)
        \/ Ping(t)
        \/ SaBegin(t)
        \/ SaInsert(t)
        \/ SaUpdate(t)
        \/ SaCommit(t)
        \/ SaRollback(t)
        \/ Release(t)
        \/ Finish(t)

SpecSubmit == InitLife /\ [][NextSubmit]_vars

\* ------------------------------------------------------------ claims
CreateTablesDone(t) == op[t] = "create_tables" /\ pc[t] = "done"

\* C1: tasks that call get_pool() concurrently while no pool exists create
\* exactly one pool, and every caller receives that same pool.
C1_OnePoolForConcurrentFirstCallers ==
    /\ nPools <= 1
    /\ \A t, u \in Tasks :
        (lpool[t] # NoPool /\ lpool[u] # NoPool) => lpool[t] = lpool[u]

\* C2: a connection acquired through connection() is released on every exit
\* path (body completed, body raised, ping failed); once no task is inside
\* a borrowing scope no connection is borrowed.
C2_ScopedConnectionReleased ==
    /\ \A t \in Tasks :
        (op[t] = "connection" /\ pc[t] = "done") =>
            (conn[t] = NoConn /\ nRel[t] = nAcq[t])
    /\ (\A t \in Tasks : pc[t] \in {"idle", "gp_create", "acquire", "done"})
            => used = {}

\* Two connection() borrowers whose bodies both raised while the other held
\* its connection have returned, and nothing is borrowed.
C2_Witness ==
    \E t, u \in Tasks :
        /\ t # u
        /\ \A v \in {t, u} :
            /\ op[v] = "connection" /\ pc[v] = "done" /\ result[v] = "raised"
            /\ overlapped[v] /\ nRel[v] = 1
        /\ used = {}

\* C3: a connection is borrowed by at most one task at a time, and every
\* borrow of every operation is matched by exactly one release.
C3_ExclusiveBorrowSingleRelease ==
    /\ \A t, u \in Tasks : (t # u /\ conn[t] # NoConn) => conn[t] # conn[u]
    /\ \A t \in Tasks :
        /\ nAcq[t] <= 1
        /\ nRel[t] <= nAcq[t]
        /\ (conn[t] # NoConn) <=> (nAcq[t] = 1 /\ nRel[t] = 0)
        /\ conn[t] # NoConn => conn[t] \in used
        /\ pc[t] = "done" => nRel[t] = nAcq[t]

\* create_tables has released its connection while executemany holds another
\* connection of the same pool.
C3_Witness ==
    \E t, u \in Tasks :
        /\ CreateTablesDone(t) /\ nAcq[t] = 1 /\ nRel[t] = 1
        /\ op[u] = "executemany" /\ conn[u] # NoConn /\ conn[u][2] = 2

\* C4: when create_tables returns False after its transaction began, the
\* persisted store is exactly what it was before the run.
C4_FailedRunLeavesStoreUnchanged ==
    \A t \in Tasks :
        (CreateTablesDone(t) /\ began[t] /\ result[t] = "false") => ~changed[t]

\* C5: once a run has reconciled the store, running the reconciler again
\* leaves tables, columns and rows as they are.
C5_ReconcilerIdempotent ==
    [][reconciled => (schema' = schema /\ rows' = rows)]_vars

\* A run that began on a reconciled, seeded store has returned True.
C5_Witness ==
    \E t \in Tasks :
        /\ CreateTablesDone(t) /\ result[t] = "true" /\ rerun[t]
        /\ count[t] = Len(seed) /\ Len(seed) = 3

\* C6: after a successful run that found the reference table non-empty,
\* every seed slug has a row in the table.
C6_MissingSeedEntryInserted ==
    \A t \in Tasks :
        (CreateTablesDone(t) /\ result[t] = "true" /\ count[t] # 0) =>
            \A i \in 1..Len(seed) : seed[i].slug \in Slugs(rows)

\* A successful run that took the UPDATE branch.
UpdatedRun(t) == CreateTablesDone(t) /\ result[t] = "true" /\ count[t] # 0

\* After a run that took the UPDATE branch every row matching a seed slug
\* carries the seed entry's mutable values.
C7_MatchingRowsCarrySeedValues ==
    \A t \in Tasks :
        UpdatedRun(t) =>
            \A r \in rows : \A i \in 1..Len(seed) :
                seed[i].slug = r.slug =>
                    \A c \in MutableColumns : r[c] = SeedValues(seed[i])[c]

\* Every step keeps each row's id, slug and name, changes only rows whose slug
\* is in the seed set, and changes them to the seed entry's values.
C7_RowsChangeInPlace ==
    \A r \in rows :
        \E r2 \in rows' :
            /\ r2.id = r.id /\ r2.slug = r.slug /\ r2.name = r.name
            /\ \/ r2 = r
               \/ \E i \in 1..Len(seed) :
                    /\ seed[i].slug = r.slug
                    /\ \A c \in MutableColumns : r2[c] = SeedValues(seed[i])[c]

\* C7: on a non-empty reference table a row whose slug matches a seed entry is
\* updated in place (id, slug kept, mutable fields set to the seed entry's),
\* and a row matching no seed entry keeps all its fields.
C7_MatchingRowsUpdatedInPlace ==
    []C7_MatchingRowsCarrySeedValues /\ [][C7_RowsChangeInPlace]_vars

\* Row 1 (slug a) of the earlier deployment carries the new tagline under its
\* old id and name, and row z is as it was.
C7_Witness ==
    /\ \E t \in Tasks : UpdatedRun(t)
    /\ \E r \in rows :
        r.id = 1 /\ r.slug = "a" /\ r.name = "A old name" /\ r.tagline = "tag a2"
    /\ Row(7, "Z", "z", OldValues("tag z")) \in rows

\* C8: the reference table never holds two rows with one slug, also when
\* two runs both read a count of zero before either inserts.
C8_SlugsUnique ==
    /\ \A r1, r2 \in rows : r1.slug = r2.slug => r1 = r2
    /\ \A t \in Tasks : \A r1, r2 \in View(t) : r1.slug = r2.slug => r1 = r2

\* Two overlapping runs both read a count of zero; one inserted and returned
\* True, the other's INSERT was refused.
C8_Witness ==
    \E t, u \in Tasks :
        /\ t # u
        /\ CreateTablesDone(t) /\ result[t] = "true" /\ count[t] = 0
        /\ CreateTablesDone(u) /\ err[u] = "duplicate" /\ count[u] = 0
        /\ Cardinality(rows) = Len(seed) /\ Len(seed) = 3

\* C9: no step of the reconciler, committed or rolled back, removes a row of
\* the reference table.
C9_NoRowDeleted == [][Ids(rows) \subseteq Ids(rows')]_vars

\* A successful run on a table holding a row whose slug is not in the seed
\* set, and the row is still there.
C9_Witness ==
    /\ \E t \in Tasks : UpdatedRun(t) /\ Len(seed) = 3
    /\ \E r \in rows : \A i \in 1..Len(seed) : seed[i].slug # r.slug

\* C10: every table that declares a foreign key is created after the tables
\* it references, so a CREATE never references a table that does not exist.
C10_ReferencedTablesExist ==
    /\ \A i \in 1..Len(Statements) :
        Statements[i].kind = "create" =>
            \A ref \in Statements[i].refs :
                \E j \in 1..(i - 1) :
                    Statements[j].kind = "create" /\ Statements[j].table = ref
    /\ \A t \in Tasks :
        /\ err[t] # "fk"
        /\ (pc[t] = "ct_stmt" /\ Statements[idx[t]].kind = "create") =>
                Statements[idx[t]].refs \subseteq DOMAIN schema

\* A run on a fresh store is about to create mystery_sessions, and the tables
\* it references exist.
C10_Witness ==
    \E t \in Tasks :
        /\ pc[t] = "ct_stmt"
        /\ Statements[idx[t]].table = "mystery_sessions"
        /\ "mystery_sessions" \notin DOMAIN schema
        /\ {"users", "mystery_assessments"} \subseteq DOMAIN schema

\* C11: a column addition whose columns all exist already raises no error
\* and leaves the table's column set as it is, and every column addition is
\* issued after the statement that creates its table, so it finds the table.
C11_ColumnAdditionNoOpWhenPresent ==
    /\ \A i \in 1..Len(Statements) :
        Statements[i].kind = "alter" =>
            \E j \in 1..(i - 1) :
                /\ Statements[j].kind = "create"
                /\ Statements[j].table = Statements[i].table
    /\ \A t \in Tasks :
        /\ err[t] \notin {"no_table", "no_column"}
        /\ (pc[t] = "ct_stmt" /\ Statements[idx[t]].kind = "alter") =>
            LET st == Statements[idx[t]]
            IN  /\ st.table \in DOMAIN schema
                /\ (\A i \in 1..Len(st.adds) : st.adds[i].col \in schema[st.table])
                    => /\ DDLError(schema, st) = "none"
                       /\ DDLEffect(schema, st) = schema

\* A run that began on a reconciled store, where every added column is
\* present, has passed every ALTER TABLE and changed nothing.
C11_Witness ==
    \E t \in Tasks :
        /\ op[t] = "create_tables" /\ pc[t] = "ct_commit"
        /\ rerun[t] /\ ~changed[t] /\ err[t] = "none"
        /\ "bubble_prompt" \in schema["mystery_assessments"]

\* C12: close() called while the manager has no pool returns without an
\* error, creates no pool and leaves the manager, the pools and the borrowed
\* connections as they are.
C12_CloseWithoutPoolIsNoOp ==
    [][\A t \in Tasks :
        (pc[t] = "idle" /\ op'[t] = "close" /\ mgrPool = NoPool) =>
            /\ pc'[t] = "done"
            /\ result'[t] = "returned"
            /\ UNCHANGED <<mgrPool, nPools, used, closing, closedPools>>]_vars

\* close() has returned at once on a manager whose pool an earlier close()
\* had closed.
C12_Witness ==
    \E t \in Tasks :
        /\ op[t] = "close" /\ pc[t] = "done" /\ result[t] = "returned"
        /\ lpool[t] = NoPool /\ mgrPool = NoPool
        /\ nPools = 1 /\ closedPools = {1}

\* C13: when close() returns, no connection is borrowed, every pool the
\* manager created is closed, and the manager holds no pool (so the next
\* get_pool() creates a new one).
C13_CloseDrainsAndResets ==
    [][\A t \in Tasks :
        (op[t] = "close" /\ pc[t] = "cl_wait" /\ pc'[t] = "done") =>
            /\ used' = {}
            /\ closedPools' = 1..nPools
            /\ mgrPool' = NoPool]_vars

\* C14: the number of connections borrowed at one time never exceeds the
\* configured maxsize.
C14_BorrowedAtMostMaxsize == Cardinality(used) <= maxsize

\* The pool of t's operation has all its connections borrowed while t asks
\* for one.
Exhausted(t) ==
    /\ pc[t] = "acquire"
    /\ Cardinality(Borrowed(lpool[t])) = maxsize

C16_FetchOneFirstRowOrNone ==
    \A t \in Tasks :
        op[t] = "fetch_one" =>
            /\ retval[t] # Unset =>
                /\ result[t] = "returned"
                /\ retval[t] = IF Len(fetched[t]) = 0 THEN None ELSE fetched[t][1]
            /\ pc[t] = "done" => (conn[t] = NoConn /\ nRel[t] = nAcq[t])
            /\ (pc[t] = "done" /\ result[t] = "returned") =>
                (nAcq[t] = 1 /\ retval[t] # Unset)

\* fetch_one has returned None for an empty result set while the other task
\* got the first of two rows, both with their connection released.
C16_Witness ==
    \E t, u \in Tasks :
        /\ op[t] = "fetch_one" /\ pc[t] = "done" /\ result[t] = "returned"
        /\ fetched[t] = <<>> /\ retval[t] = None /\ nRel[t] = 1
        /\ op[u] = "fetch_one" /\ pc[u] = "done"
        /\ fetched[u] = <<"r2", "r1">> /\ retval[u] = "r2" /\ nRel[u] = 1
        /\ used = {}

\* The writes of the parameter sets of executemany call c of size n.
WritesOf(c, n) == {<<c, i>> : i \in 1..n}

\* C17: the writes of an executemany call become durable all together or not
\* at all: all of them once the call has returned, none of them once a
\* parameter set has failed, also after later calls committed on the
\* connection the failed call used.
C17_BatchAllOrNothing ==
    /\ \A o \in outcome :
        /\ o[4] = "ok" => WritesOf(o[1], o[2]) \subseteq durable
        /\ o[4] = "failed" => WritesOf(o[1], o[2]) \cap durable = {}
    /\ \A w \in durable :
        \E o \in outcome : o[1] = w[1] /\ o[4] = "ok"

\* On a pool of one connection the first call failed on its second parameter
\* set, the second call committed, and only the second call's writes are
\* durable.
C17_Witness ==
    /\ maxsize = 1 /\ nPools = 1
    /\ <<1, 2, 1, "failed">> \in outcome
    /\ <<2, 2, 2, "ok">> \in outcome
    /\ durable = WritesOf(2, 2)

\* C18: test_connection never raises and returns a boolean: True only after
\* it acquired a connection and the ping succeeded, False when pool creation
\* or the acquisition failed; whatever it acquired is released when it
\* returns.
C18_TestConnectionReturnsBoolean ==
    \A t \in Tasks :
        op[t] = "test_connection" =>
            /\ result[t] \in {"none", "true", "false"}
            /\ result[t] = "true" => (nAcq[t] = 1 /\ pc[t] \in {"release", "done"})
            /\ pc[t] = "done" =>
                /\ result[t] \in {"true", "false"}
                /\ conn[t] = NoConn
                /\ nRel[t] = nAcq[t]
                /\ nAcq[t] = 0 => result[t] = "false"

\* One test_connection has returned False after a failed ping, the other
\* True, and both released their connection.
C18_Witness ==
    \E t, u \in Tasks :
        /\ op[t] = "test_connection" /\ pc[t] = "done"
        /\ result[t] = "false" /\ nAcq[t] = 1 /\ nRel[t] = 1
        /\ op[u] = "test_connection" /\ pc[u] = "done"
        /\ result[u] = "true" /\ nRel[u] = 1
        /\ used = {}

\* A submit_answers call that has ended without a fault of the store or of
\* the pool.
SubmitEnded(t) ==
    /\ op[t] = "submit_answers" /\ pc[t] = "done"
    /\ err[t] # "fault" /\ result[t] # "raised"

\* The answers dict has 22 entries, each value in 1..5.
WellFormed(a) ==
    /\ Len(a) = NumAnswers
    /\ \A i \in 1..Len(a) : a[i][2] >= MinValue /\ a[i][2] <= MaxValue

\* C19: for a valid user submit_answers succeeds with a new assessment id
\* exactly when the answers dict has 22 entries with values in 1..5;
\* otherwise it fails with status 400, borrows no connection and creates no
\* row.
C19_SucceedsExactlyWhenWellFormed ==
    \A t \in Tasks :
        (SubmitEnded(t) /\ user[t] # 0) =>
            IF WellFormed(answers[t])
              THEN /\ result[t] = "ok"
                   /\ assessmentId[t] # 0
                   /\ <<"row", assessmentId[t]>> \in durable
              ELSE /\ result[t] = "400"
                   /\ nAcq[t] = 0
                   /\ assessmentId[t] = 0

\* C20: the text of each statement submit_answers issues does not depend on
\* the caller's input: two calls issue the same texts, statement by
\* statement.
C20_QueryTextIndependentOfInput ==
    \A t, u \in Tasks :
        \A i \in 1..Len(qtext[t]) :
            i <= Len(qtext[u]) => qtext[t][i] = qtext[u][i]

\* Task t's run issues the statement of _initialize_schema it is at.
Issues(t) ==
    /\ pc[t] \in {"ct_stmt", "ct_count"}
    /\ pc'[t] # pc[t] \/ idx'[t] # idx[t]

\* A statement of the given kinds follows statement i in _initialize_schema.
LaterOfKind(i, kinds) ==
    \E j \in (i + 1)..Len(Statements) : Statements[j].kind \in kinds

\* C21: a reconciler run is one forward pass in the order begin, all table
\* creations, all column additions, seed reconciliation, commit: no column
\* addition is issued while a table creation is still to come, and the seed
\* reconciliation is issued after the last table creation and the last
\* column addition.
C21_CreationsThenAdditionsThenSeed ==
    [][\A t \in Tasks :
        Issues(t) =>
            /\ began[t]
            /\ idx'[t] \in {0, idx[t], idx[t] + 1}
            /\ Statements[idx[t]].kind = "alter" =>
                   ~LaterOfKind(idx[t], {"create"})
            /\ Statements[idx[t]].kind = "seed" =>
                   ~LaterOfKind(idx[t], {"create", "alter"})]_vars

\* The operations the claim lists that the manager's callers run through Ops.
StatementOps ==
    {"fetch_all", "fetch_one", "execute", "executemany", "create_tables"}

\* C22: every operation that runs a statement borrows its connection through
\* connection(), so the step after the borrow is the liveness probe
\* `conn.ping(reconnect=True)`, before any statement runs on the connection.
C22_ProbeBeforeFirstStatement ==
    [][\A t \in Tasks :
        (op[t] \in StatementOps /\ pc[t] = "acquire" /\ conn'[t] # NoConn) =>
            pc'[t] = "ping"]_vars

\* C23: a failing pool creation makes get_pool() fail to its caller after
\* that one attempt, the manager keeps no pool from it, and a call that finds
\* the manager without a pool makes a creation attempt of its own; the
\* constructed manager has attempted no creation.
C23_FailedCreationNotRetriedNotKept ==
    /\ mgrPool = NoPool /\ nPools = 0 /\ \A t \in Tasks : pc[t] = "idle"
    /\ [][\A t \in Tasks :
            /\ (pc[t] = "gp_create" /\ pc'[t] # "gp_create" /\ nPools' = nPools) =>
                   /\ pc'[t] = "done"
                   /\ result'[t] \in {"raised", "false"}
                   /\ lpool'[t] = NoPool
                   /\ mgrPool' = mgrPool
            /\ (pc[t] = "idle" /\ op'[t] \in Ops /\ mgrPool = NoPool) =>
                   pc'[t] = "gp_create"]_vars

\* get_pool() has failed for one caller, the manager holds no pool, and
\* another get_pool() is at its own creation attempt.
C23_Witness ==
    \E t, u \in Tasks :
        /\ op[t] = "get_pool" /\ pc[t] = "done" /\ result[t] = "raised"
        /\ mgrPool = NoPool /\ nPools = 0
        /\ op[u] = "get_pool" /\ pc[u] = "gp_create"

\* Task t's create_tables got as far as `await conn.begin()`.
ReachedBegin(t) == began[t] \/ err[t] # "none"

\* C24: a create_tables run that reaches begin ends with one outcome,
\* committed or rolled back, on its connection before the release: it
\* returns True exactly when the commit succeeded, and False after any
\* failure, a failing commit included.
C24_CommitOrRollbackDecidesResult ==
    \A t \in Tasks :
        (CreateTablesDone(t) /\ ReachedBegin(t)) =>
            /\ result[t] \in {"true", "false"}
            /\ result[t] = "true" <=> err[t] = "none"
            /\ txn[t] = NoTxn
            /\ nAcq[t] = 1 /\ nRel[t] = 1

\* Task t's query helper has ended.
HelperEnded(t) == op[t] \in HelperOps /\ pc[t] = "done"

\* C25: when the statement of a query helper fails, the helper raises to its
\* caller without issuing a commit and releases the connection; a successful
\* execute has committed exactly once and returns the generated row id, or 0
\* when there is none.
C25_StatementFailurePropagatesExecuteCommitsOnce ==
    /\ [][\A t \in Tasks :
            (op[t] \in HelperOps /\ pc[t] = "stmt" /\ pc'[t] = "release") =>
                \/ /\ result'[t] = "raised"
                   /\ nCommit'[t] = 0
                   /\ durable' = durable
                \/ /\ result'[t] = "returned"
                   /\ op[t] \in {"fetch_all", "fetch_one"}]_vars
    /\ [](\A t \in Tasks :
            HelperEnded(t) =>
                /\ conn[t] = NoConn
                /\ nRel[t] = nAcq[t]
                /\ (op[t] = "execute" /\ result[t] = "returned") =>
                       /\ nCommit[t] = 1
                       /\ execRet[t] =
                            (IF lastrowid[t] \in {<<>>, <<0>>}
                                 THEN 0 ELSE lastrowid[t][1])
                /\ (op[t] = "execute" /\ result[t] = "raised") =>
                       execRet[t] = NoReturn)

\* One execute has raised on its statement, with no commit and its connection
\* released, while another has committed once and returned the generated id.
C25_Witness ==
    \E t, u \in Tasks :
        /\ HelperEnded(t) /\ op[t] = "execute" /\ result[t] = "raised"
        /\ nCommit[t] = 0 /\ nAcq[t] = 1 /\ nRel[t] = 1
        /\ HelperEnded(u) /\ op[u] = "execute" /\ result[u] = "returned"
        /\ nCommit[u] = 1 /\ execRet[u] = 7

\* The rows task t's submission wrote: the inserted row and its answers.
SubmissionWrites(t) ==
    IF assessmentId[t] = 0 THEN {}
    ELSE {<<"row", assessmentId[t]>>, <<"answers", assessmentId[t]>>}

\* Task t's submit_answers has returned or raised.
SubmitDone(t) == op[t] = "submit_answers" /\ pc[t] = "done"

\* C26: a submission is one transaction on one borrowed connection: after
\* success its insert and its update are both committed; when a statement
\* or the commit fails it raises ServiceError with status 500 and nothing
\* the submission wrote persists; either way the connection is released.
C26_SubmissionAtomicFailureIs500 ==
    \A t \in Tasks :
        (SubmitDone(t) /\ nAcq[t] = 1) =>
            /\ conn[t] = NoConn /\ nRel[t] = 1
            /\ \A pw \in pending : pw[2] \notin SubmissionWrites(t)
            /\ result[t] = "ok" =>
                   (assessmentId[t] # 0 /\ SubmissionWrites(t) \subseteq durable)
            /\ (err[t] # "none" /\ qtext[t] # <<>>) =>
                   /\ result[t] = "500"
                   /\ SubmissionWrites(t) \cap durable = {}

\* close() is suspended in wait_closed() because a connection of the pool is
\* still borrowed.
CloseSuspended == hook = "cl_wait" /\ ~Drained(hookPool)

\* C27: while close() is suspended waiting for the pool to drain, a task
\* that calls get_pool(), directly or through an operation, does not
\* receive the pool being closed.
C27_GetPoolNeverReturnsClosingPool ==
    [][\A t \in Tasks :
        (CloseSuspended /\ pc[t] = "idle" /\ op'[t] \in ServingOps) =>
            lpool'[t] \notin closing]_vars

\* Every connection of pool p is borrowed and each borrower waits for
\* another connection.
AllHeldByWaiters(p) ==
    /\ Borrowed(p) = ConnsOf(p)
    /\ \A t \in Tasks : conn[t] \in ConnsOf(p) => pc[t] = "acquire"

\* C28: no operation asks for a connection while it holds one, each holds
\* at most one, so the connections of a pool are never all held by callers
\* that wait for another connection.
C28_NoBorrowerWaitsForSecondConnection ==
    /\ \A t \in Tasks :
        /\ pc[t] = "acquire" => (conn[t] = NoConn /\ nAcq[t] = 0)
        /\ nAcq[t] <= 1
        /\ pc[t] = "done" => conn[t] = NoConn
    /\ \A p \in 1..nPools : ~AllHeldByWaiters(p)

\* submit_answers waits for the only connection of the pool while
\* create_tables holds it and runs its statements.
C28_Witness ==
    \E t, u \in Tasks :
        /\ Exhausted(t) /\ op[t] = "submit_answers" /\ maxsize = 1
        /\ op[u] = "create_tables" /\ pc[u] = "ct_stmt"
        /\ conn[u] = <<lpool[t], 1>>

\* Task t's create_tables is at a step that precedes its `try`: get_pool(),
\* pool.acquire() or the probe of connection().
BeforeTry(t) ==
    op[t] = "create_tables" /\ pc[t] \in {"gp_create", "acquire", "ping"}

\* C29: when pool creation, the acquisition or the probe of create_tables
\* fails, the exception leaves create_tables (no False), no begin, commit or
\* rollback is issued, the store stays as it is, and a connection that was
\* borrowed is released.
C29_FailureBeforeBeginPropagates ==
    /\ [][\A t \in Tasks :
            (BeforeTry(t) /\ pc'[t] \notin {pc[t], "acquire", "ping", "ct_begin"}) =>
                /\ result'[t] = "raised"
                /\ pc'[t] = IF pc[t] = "ping" THEN "release" ELSE "done"
                /\ schema' = schema /\ rows' = rows /\ txn' = txn]_vars
    /\ [](\A t \in Tasks :
            (CreateTablesDone(t) /\ result[t] = "raised" /\ err[t] = "none") =>
                /\ ~began[t] /\ ~changed[t] /\ txn[t] = NoTxn
                /\ conn[t] = NoConn /\ nRel[t] = nAcq[t])

\* create_tables has raised because its probe failed: the connection it had
\* borrowed is released and no transaction was begun.
C29_Witness ==
    \E t \in Tasks :
        /\ CreateTablesDone(t) /\ result[t] = "raised" /\ err[t] = "none"
        /\ nAcq[t] = 1 /\ nRel[t] = 1 /\ ~began[t] /\ used = {}

====
